---- MODULE Spec2Model ----
(***************************************************************************)
(* The stroke-to-graph vectorization engine of the sketch front end:       *)
(* removeColinearPoints / areColinear, createWallGraph (node merge,        *)
(* rectification, edge deduplication), findDoors, scaleToRealWorld and the *)
(* send handler that chains them.                                          *)
(*                                                                         *)
(* Numbers.  JavaScript numbers are modelled as exact extended rationals   *)
(* <<n, d>> in lowest terms with d >= 0: d = 0 stands for the non-finite   *)
(* values (<<1,0>> = Infinity, <<-1,0>> = -Infinity, <<0,0>> = NaN).       *)
(* Math.sqrt is monotone on the non-negative numbers, so a distance that   *)
(* is compared with a constant is carried as its square and compared as    *)
(* such.  The angle tests (acos, atan2 against a tolerance of 10 degrees)  *)
(* are stated on the tangent of the angle; TanTol explains why the         *)
(* comparison is exact.  Two computations are made on IEEE 754 binary64    *)
(* values, because their rounding shows: the distances that                *)
(* snapToNearestEdge compares with each other, and the products of the     *)
(* scaling in SpecScale.                                                   *)
(***************************************************************************)
EXTENDS Integers, Sequences, FiniteSets, TLC

VARIABLES
    pc,          \* position of the running operation
    points,      \* removeColinearPoints: the input point sequence
    cleaned,     \* removeColinearPoints(points)
    cleaned2,    \* removeColinearPoints(cleaned)
    wallPaths,   \* createWallGraph: the wall strokes, in layer order
    pathIdx,     \* the wall stroke wallPaths.forEach handles next (from 1)
    nodes,       \* graph.nodes
    edges,       \* graph.edges, each <<idx1, idx2>> with the code's 0-based indices
    edgeIdx,     \* the edge the rectification forEach handles next (from 1)
    resolved,    \* history: every endpoint resolved so far with the index it got
    cls,         \* history: how each edge was classified when it was rectified
    builtNodes,  \* history: graph.nodes as the merge phase left them
    rawEdges,    \* history: graph.edges as they were before deduplication
    doorPaths,   \* findDoors: the door strokes, in layer order
    doorIdx,     \* the door stroke doorPaths.forEach handles next (from 1)
    doors,       \* findDoors: the doors array
    apiKey,      \* send: whether VITE_ANTHROPIC_API_KEY is set
    dimsPath,    \* send: the dimension strokes, in layer order
    length,      \* send: the longer side of the dimension strokes' bounding box
    dimensionData, \* send: what extractDimensionNumber resolved to
    scaleCall,   \* history: the arguments and scaleFactor of the scaleToRealWorld call
    pixelData,   \* history: wallGraph nodes and doorsData before the scaling step
    finalJSON,   \* send: the object posted to the server
    scaleIn,     \* scaleToRealWorld on doubles: the nodes, the doors and two lengths
    scaleOut,    \* scaleToRealWorld on doubles: the results computed so far
    parseIn,     \* parseArchitecturalSketch: options and canvas
    parseSt,     \* parseArchitecturalSketch: walls, doors, rooms, the calls made, the result
    distanceMemo, \* the distances of distanceToSegment computed ahead, by <<point, lineStart, lineEnd>>
    tool,        \* the drawing tool: mode, mouse button, the path variable, events handled
    layer        \* the active layer against send's arrays: strokes begun since, strokes removed

simplVars == <<points, cleaned, cleaned2>>
graphVars == <<wallPaths, pathIdx, nodes, edges, edgeIdx, resolved, cls, builtNodes, rawEdges>>
doorVars == <<doorPaths, doorIdx, doors>>
sendVars == <<apiKey, dimsPath, length, dimensionData, scaleCall, pixelData, finalJSON>>
scaleVars == <<scaleIn, scaleOut>>
parseVars == <<parseIn, parseSt>>
vars == <<pc, simplVars, graphVars, doorVars, sendVars, scaleVars, parseVars, tool, layer, distanceMemo>>

----------------------------------------------------------------------------
(* Extended rational arithmetic                                            *)

Abs(n) == IF n < 0 THEN -n ELSE n

Sign(n) == IF n < 0 THEN -1 ELSE IF n > 0 THEN 1 ELSE 0

RECURSIVE GCD(_, _)
GCD(a, b) == IF b = 0 THEN a ELSE GCD(b, a % b)

\* n/d in lowest terms, the sign on the numerator; n/0 is +-Infinity or NaN.
RNorm(n, d) ==
    IF d = 0 THEN <<Sign(n), 0>>
    ELSE LET g == GCD(Abs(n), Abs(d))
             s == IF d < 0 THEN -1 ELSE 1
         IN  <<(s * n) \div g, (s * d) \div g>>

Rat(n) == <<n, 1>>

Infinity == <<1, 0>>

NaN == <<0, 0>>

IsFinite(a) == a[2] # 0

IsNaN(a) == a = NaN

RNeg(a) == <<-a[1], a[2]>>

\* The one element of a singleton set; {F(v) : v \in {e}} evaluates e once.
Val(S) == CHOOSE r \in S : TRUE

RAdd(a, b) ==
    IF IsFinite(a) /\ IsFinite(b)
    THEN LET g == GCD(a[2], b[2])
         IN  RNorm(a[1] * (b[2] \div g) + b[1] * (a[2] \div g), (a[2] \div g) * b[2])
    ELSE IF IsNaN(a) \/ IsNaN(b) THEN NaN
    ELSE IF ~IsFinite(a) /\ ~IsFinite(b) THEN (IF a = b THEN a ELSE NaN)
    ELSE IF IsFinite(a) THEN b ELSE a

RSub(a, b) == RAdd(a, RNeg(b))

RMul(a, b) ==
    IF IsFinite(a) /\ IsFinite(b)
    THEN LET g1 == GCD(Abs(a[1]), b[2])
             g2 == GCD(Abs(b[1]), a[2])
         IN  RNorm((a[1] \div g1) * (b[1] \div g2), (a[2] \div g2) * (b[2] \div g1))
    ELSE RNorm(a[1] * b[1], 0)

\* a / b; a zero divisor is +0 wherever the program divides
RDiv(a, b) ==
    IF b = <<0, 1>> THEN RNorm(a[1], 0)
    ELSE RNorm(a[1] * b[2] * Sign(b[1]), a[2] * Abs(b[1]))

RAbs(a) == <<Abs(a[1]), a[2]>>

\* a < b as JavaScript evaluates it: false as soon as one side is NaN.
RLt(a, b) ==
    IF IsNaN(a) \/ IsNaN(b) THEN FALSE
    ELSE IF ~IsFinite(a) /\ ~IsFinite(b) THEN a[1] < b[1]
    ELSE a[1] * b[2] < b[1] * a[2]

RLe(a, b) == RLt(a, b) \/ (~IsNaN(a) /\ a = b)

\* Math.max and Math.min: NaN as soon as one argument is NaN.
RMax(a, b) ==
    IF IsNaN(a) \/ IsNaN(b) THEN NaN
    ELSE IF RLt(a, b) THEN b ELSE a

RMin(a, b) ==
    IF IsNaN(a) \/ IsNaN(b) THEN NaN
    ELSE IF RLt(b, a) THEN b ELSE a

----------------------------------------------------------------------------
(***************************************************************************)
(* IEEE 754 binary64.  Where the rounding of the engine decides what the   *)
(* program does, the values are doubles: the scale factor and the products *)
(* x * scaleFactor of scaleToRealWorld (SpecScale) and the distances that  *)
(* snapToNearestEdge compares.  A finite double is [neg, m, e] =           *)
(* (-1)^neg * m * 2^e with the significand m kept as four little-endian    *)
(* limbs of LimbBits bits: 2^52 <= m < 2^53 and -1074 <= e <= 971 for a    *)
(* normal double, 0 < m < 2^52 and e = -1074 for a subnormal one, m = 0    *)
(* and e = 0 for 0 (F64Zero) and -0.  F64Infinity, its negative and F64NaN *)
(* are the values that are not finite.  Results are rounded to nearest,    *)
(* ties to even.                                                           *)
(***************************************************************************)
LimbBits == 14

LimbBase == 2^LimbBits

MantLimbs == 4

\* limb i of a natural kept as limbs, 0 outside
Limb0(a, i) == IF i >= 1 /\ i <= Len(a) THEN a[i] ELSE 0

\* the LimbBits bits of a that start at bit d (d may be negative)
Window(a, d) ==
    LET ls == d \div LimbBits
        r  == d % LimbBits
    IN  (Limb0(a, ls + 1) \div 2^r) + (Limb0(a, ls + 2) % 2^r) * 2^(LimbBits - r)

\* floor(a / 2^sh) for sh >= 0, a * 2^(-sh) for sh < 0, as n limbs
BigShift(a, sh, n) == [j \in 1..n |-> Window(a, sh + LimbBits * (j - 1))]

BitAt(a, i) == Window(a, i) % 2

RECURSIVE Carry(_, _, _)
\* carry propagation over column sums, one limb longer than cols
Carry(cols, k, c) ==
    IF k > Len(cols) THEN <<c>>
    ELSE Val({<<v % LimbBase>> \o Carry(cols, k + 1, v \div LimbBase) : v \in {cols[k] + c}})

\* a * b; ColSum is the sum of a[i] * b[k + 1 - i] over the i from i0 up
BigMul(a, b) ==
    LET RECURSIVE ColSum(_, _)
        ColSum(k, i0) ==
            IF i0 > Len(a) THEN 0
            ELSE a[i0] * Limb0(b, k + 1 - i0) + ColSum(k, i0 + 1)
    IN  Carry([k \in 1..(Len(a) + Len(b) - 1) |-> ColSum(k, 1)], 1, 0)

BigIsZero(a) == \A i \in 1..Len(a) : a[i] = 0

\* the sign of a - b; From(i) is the sign on the limbs i and below
BigCmp(a, b) ==
    LET RECURSIVE From(_)
        From(i) ==
            IF i = 0 THEN 0
            ELSE IF Limb0(a, i) > Limb0(b, i) THEN 1
            ELSE IF Limb0(a, i) < Limb0(b, i) THEN -1
            ELSE From(i - 1)
    IN  From(IF Len(a) > Len(b) THEN Len(a) ELSE Len(b))

\* a - b for a >= b; From(k, br) is the difference from limb k up after
\* the borrow br
BigSub(a, b) ==
    LET RECURSIVE From(_, _)
        From(k, br) ==
            IF k > Len(a) THEN <<>>
            ELSE Val({<<(v + LimbBase) % LimbBase>> \o From(k + 1, IF v < 0 THEN 1 ELSE 0)
                         : v \in {a[k] - Limb0(b, k) - br}})
    IN  From(1, 0)

\* the number of bits of a: those of its highest limb that is not zero
\* and LimbBits for each limb below
BigBitLen(a) ==
    LET RECURSIVE TopLimb(_)
        TopLimb(i) == IF i = 0 \/ a[i] # 0 THEN i ELSE TopLimb(i - 1)
        BitLen(n) == CHOOSE b \in 0..LimbBits : 2^b > n /\ (b = 0 \/ 2^(b - 1) <= n)
    IN  Val({IF t = 0 THEN 0 ELSE LimbBits * (t - 1) + BitLen(a[t]) : t \in {TopLimb(Len(a))}})

\* a with bit i set
SetBit(a, i) == [j \in 1..Len(a) |-> IF j = (i \div LimbBits) + 1 THEN a[j] + 2^(i % LimbBits) ELSE a[j]]

F64Zero == [neg |-> 0, m |-> [j \in 1..MantLimbs |-> 0], e |-> 0]

MantOne == [j \in 1..MantLimbs |-> IF j = MantLimbs THEN 2^(52 - LimbBits * (MantLimbs - 1)) ELSE 0]

\* 2^1024, above every finite double, stands for Infinity; -Infinity is
\* the same with neg = 1
F64Infinity == [neg |-> 0, m |-> MantOne, e |-> 972]

\* not a number: no significand and an exponent
F64NaN == [neg |-> 0, m |-> [j \in 1..MantLimbs |-> 0], e |-> 1]

\* The double nearest to (-1)^neg * (N + f) * 2^e, ties to even, where f
\* is a fraction below 1 that is not zero exactly when sticky holds: the
\* 53 leading bits of N, or the bits from 2^-1074 up when those are fewer
\* (a subnormal), one more in the last place when the bits below are more
\* than half of it, or half of it with the last bit odd.  Fit gives the
\* zero of the sign when nothing is left and the Infinity of the sign from
\* 2^1024 on.
F64Norm(neg, N, e, sticky) ==
    LET LowZero(n) == \A i \in 0..(n - 1) : BitAt(N, i) = 0
        Up(sh) == /\ BitAt(N, sh - 1) = 1
                  /\ (sticky \/ ~LowZero(sh - 1) \/ BitAt(N, sh) = 1)
        Inc(q) == SubSeq(Carry([k \in 1..Len(q) |-> IF k = 1 THEN q[1] + 1 ELSE q[k]], 1, 0),
                         1, Len(q))
        Fit(r) == IF BigIsZero(r.m) THEN [F64Zero EXCEPT !.neg = neg]
                  ELSE IF r.e > 971 THEN [F64Infinity EXCEPT !.neg = neg]
                  ELSE r
        Rounded(sh) ==
            IF sh <= 0 \/ ~Up(sh)
            THEN [neg |-> neg, m |-> BigShift(N, sh, MantLimbs), e |-> e + sh]
            ELSE Val({ IF BitAt(q1, 53) = 1
                       THEN [neg |-> neg, m |-> MantOne, e |-> e + sh + 1]
                       ELSE [neg |-> neg, m |-> q1, e |-> e + sh]
                       : q1 \in {Inc(BigShift(N, sh, MantLimbs))} })
    IN  IF BigIsZero(N) THEN [F64Zero EXCEPT !.neg = neg]
        ELSE Val({ Val({ Fit(r) : r \in {Rounded(IF lead >= -1074 - e THEN lead ELSE -1074 - e)} })
                   : lead \in {BigBitLen(N) - 53} })

\* the double of an integer below 2^31 in magnitude
F64OfInt(n) ==
    LET a == IF n < 0 THEN -n ELSE n
    IN  F64Norm(IF n < 0 THEN 1 ELSE 0,
                <<a % LimbBase, (a \div LimbBase) % LimbBase, a \div (LimbBase * LimbBase)>>,
                0, FALSE)

\* a + b on doubles.  NaN stays NaN, Infinity + -Infinity is NaN, and two
\* zeros give -0 only when both are -0.  Ordered(hi, lo) adds two finite
\* doubles that are not zero, hi.e >= lo.e: beyond 55 binary places lo is
\* less than a quarter of the last place of hi.  A sum that cancels is +0.
F64Add(a, b) ==
    LET Ordered(hi, lo) ==
            IF hi.e - lo.e > 55 THEN hi
            ELSE Val({ IF hi.neg = lo.neg
                       THEN F64Norm(hi.neg,
                                    Carry([k \in 1..Len(A) |-> A[k] + Limb0(lo.m, k)], 1, 0),
                                    lo.e, FALSE)
                       ELSE Val({ IF c = 0 THEN F64Zero
                                  ELSE IF c > 0 THEN F64Norm(hi.neg, BigSub(A, lo.m), lo.e, FALSE)
                                  ELSE F64Norm(lo.neg, BigSub(lo.m, A), lo.e, FALSE)
                                  : c \in {BigCmp(A, lo.m)} })
                       : A \in {BigShift(hi.m, lo.e - hi.e, 2 * MantLimbs)} })
    IN  IF a = F64NaN \/ b = F64NaN THEN F64NaN
        ELSE IF a.e = F64Infinity.e
        THEN IF b.e = F64Infinity.e /\ a.neg # b.neg THEN F64NaN ELSE a
        ELSE IF b.e = F64Infinity.e THEN b
        ELSE IF BigIsZero(a.m)
        THEN IF BigIsZero(b.m) /\ a.neg # b.neg THEN F64Zero ELSE b
        ELSE IF BigIsZero(b.m) THEN a
        ELSE IF a.e >= b.e THEN Ordered(a, b)
        ELSE Ordered(b, a)

\* a - b on doubles: a + (-b)
F64Sub(a, b) == F64Add(a, IF b = F64NaN THEN b ELSE [b EXCEPT !.neg = 1 - @])

\* a * b on doubles: NaN for NaN and for 0 * Infinity, else the sign is
\* the product of the signs, on Infinity and on zero as well
F64Mul(a, b) ==
    LET neg == (a.neg + b.neg) % 2
    IN  IF a = F64NaN \/ b = F64NaN THEN F64NaN
        ELSE IF a.e = F64Infinity.e \/ b.e = F64Infinity.e
        THEN IF BigIsZero(a.m) \/ BigIsZero(b.m) THEN F64NaN
             ELSE [F64Infinity EXCEPT !.neg = neg]
        ELSE IF BigIsZero(a.m) \/ BigIsZero(b.m) THEN [F64Zero EXCEPT !.neg = neg]
        ELSE F64Norm(neg, BigMul(a.m, b.m), a.e + b.e, FALSE)

\* a / b on doubles.  NaN for NaN, 0 / 0 and Infinity / Infinity; a
\* division by zero gives the Infinity of the sign, a division by Infinity
\* the zero of the sign.  Normal(x) is x with its significand shifted to 53
\* bits (a subnormal has fewer).  Quotient(A, B) divides two such doubles:
\* MantLimbs * LimbBits = 56 bits of the quotient of the significands,
\* floor(A.m * 2^55 / B.m), and whether a remainder is left.  When B.m has
\* its top limb only, the quotient is that of A.m * 2^13 by the limb, by
\* long division from the top limb down (Small).  Otherwise it is taken
\* bit by bit by restoring division: Twice(rem, ge) is the remainder for
\* the next bit, rem < 2 B.m, and Limb takes n further bits after the bits
\* cur.
F64Div(a, b) ==
    LET neg == (a.neg + b.neg) % 2
        Normal(x) ==
            Val({ [neg |-> x.neg, m |-> BigShift(x.m, -k, MantLimbs), e |-> x.e - k]
                  : k \in {53 - BigBitLen(x.m)} })
        Quotient(A, B) ==
            LET e == A.e - B.e - 55
                RECURSIVE Small(_, _, _)
                Small(N, i, rem) ==
                    IF i = 0 THEN [q |-> <<>>, rem |-> rem]
                    ELSE Val({ Val({ [q |-> Append(rest.q, cur \div B.m[MantLimbs]), rem |-> rest.rem]
                                     : rest \in {Small(N, i - 1, cur % B.m[MantLimbs])} })
                               : cur \in {rem * LimbBase + N[i]} })
                Twice(rem, ge) ==
                    SubSeq(Carry([k \in 1..MantLimbs |->
                                     2 * (rem[k] - (IF ge THEN B.m[k] ELSE 0))], 1, 0),
                           1, MantLimbs)
                RECURSIVE Limb(_, _, _)
                Limb(rem, n, cur) ==
                    IF n = 0 THEN [rem |-> rem, limb |-> cur]
                    ELSE Val({ Val({ Limb(r2, n - 1, 2 * cur + (IF ge THEN 1 ELSE 0))
                                     : r2 \in {Twice(rem, ge)} })
                               : ge \in {BigCmp(rem, B.m) >= 0} })
            IN  IF \A k \in 1..(MantLimbs - 1) : B.m[k] = 0
                THEN Val({ F64Norm(neg, D.q, e, D.rem # 0)
                           : D \in {Small(BigShift(A.m, 42 - 55, MantLimbs + 1), MantLimbs + 1, 0)} })
                ELSE Val({ Val({ Val({ Val({
                         F64Norm(neg, <<l1.limb, l2.limb, l3.limb, l4.limb>>, e, ~BigIsZero(l1.rem))
                         : l1 \in {Limb(l2.rem, LimbBits, 0)} })
                         : l2 \in {Limb(l3.rem, LimbBits, 0)} })
                         : l3 \in {Limb(l4.rem, LimbBits, 0)} })
                         : l4 \in {Limb(A.m, LimbBits, 0)} })
    IN  IF a = F64NaN \/ b = F64NaN THEN F64NaN
        ELSE IF a.e = F64Infinity.e
        THEN IF b.e = F64Infinity.e THEN F64NaN ELSE [F64Infinity EXCEPT !.neg = neg]
        ELSE IF b.e = F64Infinity.e THEN [F64Zero EXCEPT !.neg = neg]
        ELSE IF BigIsZero(b.m)
        THEN IF BigIsZero(a.m) THEN F64NaN ELSE [F64Infinity EXCEPT !.neg = neg]
        ELSE IF BigIsZero(a.m) THEN [F64Zero EXCEPT !.neg = neg]
        ELSE Val({ Quotient(A, B) : A \in {Normal(a)}, B \in {Normal(b)} })

\* Math.sqrt on a double: NaN for NaN and below zero, the argument itself
\* for a zero and for Infinity.  Otherwise the significand, with 53 bits
\* (Normal), is shifted to an even exponent and 55 bits of its root are
\* taken.  Step sets bit i of r if the square stays within N; Bits gives
\* the largest r with r * r <= N that has the bits of r above bit i.
F64Sqrt(a) ==
    LET Normal(x) ==
            Val({ [neg |-> x.neg, m |-> BigShift(x.m, -k, MantLimbs), e |-> x.e - k]
                  : k \in {53 - BigBitLen(x.m)} })
        Step(N, r, i) ==
            Val({IF BigCmp(BigMul(c, c), N) <= 0 THEN c ELSE r : c \in {SetBit(r, i)}})
        Step5(N, r, i) ==
            Val({ Val({ Val({ Val({ Step(N, r4, i - 4) : r4 \in {Step(N, r3, i - 3)} })
                              : r3 \in {Step(N, r2, i - 2)} })
                        : r2 \in {Step(N, r1, i - 1)} })
                  : r1 \in {Step(N, r, i)} })
        RECURSIVE Bits(_, _, _)
        Bits(N, r, i) ==
            IF i < 0 THEN r ELSE Val({Bits(N, r5, i - 5) : r5 \in {Step5(N, r, i)}})
        Root(A, s) ==
            Val({ Val({ F64Norm(0, r, (A.e - s) \div 2, BigCmp(BigMul(r, r), N) # 0)
                        : r \in {Bits(N, [j \in 1..MantLimbs |-> 0], 54)} })
                  : N \in {BigShift(A.m, -s, 2 * MantLimbs)} })
    IN  IF a = F64NaN THEN F64NaN
        ELSE IF BigIsZero(a.m) THEN a
        ELSE IF a.neg = 1 THEN F64NaN
        ELSE IF a.e = F64Infinity.e THEN a
        ELSE Val({ Root(A, IF (A.e + 4096) % 2 = 0 THEN 56 ELSE 57) : A \in {Normal(a)} })

\* a finite double that is a power of two
F64IsPowerOfTwo(a) == a.m = MantOne /\ a.e # F64Infinity.e

F64One == F64OfInt(1)

\* a < b as JavaScript evaluates it: false as soon as one side is NaN, and
\* -0 is not below 0
F64Lt(a, b) ==
    LET below == a.e < b.e \/ (a.e = b.e /\ BigCmp(a.m, b.m) < 0)
    IN  /\ a # F64NaN
        /\ b # F64NaN
        /\ IF BigIsZero(a.m) THEN ~BigIsZero(b.m) /\ b.neg = 0
           ELSE IF BigIsZero(b.m) THEN a.neg = 1
           ELSE IF a.neg # b.neg THEN a.neg = 1
           ELSE IF a.neg = 0 THEN below ELSE a # b /\ ~below

----------------------------------------------------------------------------
(* Points                                                                  *)

Pt(x, y) == [x |-> Rat(x), y |-> Rat(y)]

\* (p1.x - p2.x) ** 2 + (p1.y - p2.y) ** 2, the square of distance(p1, p2)
DistSq(p1, p2) ==
    LET dx == RSub(p1.x, p2.x)
        dy == RSub(p1.y, p2.y)
    IN  RAdd(RMul(dx, dx), RMul(dy, dy))

\* tan(10 degrees) = 0.17632698070846..., irrational.  2239/12698 is the
\* continued-fraction convergent just below it and 168214/953989 the next
\* one, just above: every fraction strictly between 2239/12698 and tan(10
\* degrees) has a denominator of at least 12698 + 953989.  The ratios the
\* model compares have far smaller denominators, so "ratio <= tan(10 deg)"
\* and "ratio <= 2239/12698" agree on all of them.
TanTol == <<2239, 12698>>

----------------------------------------------------------------------------
(* StrokeSimplifier                                                        *)

\* The angle at p2 between p2->p1 and p2->p3 is within 10 degrees of 180
\* exactly when the dot product is negative and |cross| / (-dot) <= tan(10).
areColinear(p1, p2, p3) ==
    LET v1x == RSub(p1.x, p2.x)
        v1y == RSub(p1.y, p2.y)
        v2x == RSub(p3.x, p2.x)
        v2y == RSub(p3.y, p2.y)
        mag1Sq == RAdd(RMul(v1x, v1x), RMul(v1y, v1y))
        mag2Sq == RAdd(RMul(v2x, v2x), RMul(v2y, v2y))
        dotProduct == RAdd(RMul(v1x, v2x), RMul(v1y, v2y))
        cross == RSub(RMul(v1x, v2y), RMul(v1y, v2x))
    IN  IF mag1Sq = Rat(0) \/ mag2Sq = Rat(0) THEN TRUE
        ELSE /\ RLt(dotProduct, Rat(0))
             /\ RLe(RAbs(cross), RMul(TanTol, RNeg(dotProduct)))

\* Mutant: prev is the previous raw point, not the last retained one.
RECURSIVE rcpLoop_prevRaw(_, _, _)
rcpLoop_prevRaw(pts, i, cl) ==
    IF i > Len(pts) - 1 THEN cl
    ELSE LET prev == pts[i - 1]
             current == pts[i]
             next == pts[i + 1]
         IN  rcpLoop_prevRaw(pts, i + 1,
                             IF ~areColinear(prev, current, next)
                             THEN Append(cl, current) ELSE cl)

\* Mutant: the loop pushes `next` where the code pushes `current`.
RECURSIVE rcpLoop_pushNext(_, _, _)
rcpLoop_pushNext(pts, i, cl) ==
    IF i > Len(pts) - 1 THEN cl
    ELSE LET prev == cl[Len(cl)]
             current == pts[i]
             next == pts[i + 1]
         IN  rcpLoop_pushNext(pts, i + 1,
                     IF ~areColinear(prev, current, next)
                     THEN Append(cl, next) ELSE cl)

\* The for loop of removeColinearPoints from index i on (1-based; the
\* interior points are 2 .. Len - 1), cl being `cleaned` so far.
RECURSIVE rcpLoop(_, _, _)
rcpLoop(pts, i, cl) ==
    IF i > Len(pts) - 1 THEN cl
    ELSE LET prev == cl[Len(cl)]
             current == pts[i]
             next == pts[i + 1]
         IN  rcpLoop(pts, i + 1,
                     IF ~areColinear(prev, current, next)
                     THEN Append(cl, current) ELSE cl)

\* Mutant: the final cleaned.push(points[points.length - 1]) is missing.
removeColinearPoints_noLastPush(pts) ==
    IF Len(pts) <= 2 THEN pts
    ELSE rcpLoop(pts, 2, <<pts[1]>>)

removeColinearPoints(pts) ==
    IF Len(pts) <= 2 THEN pts
    ELSE Append(rcpLoop(pts, 2, <<pts[1]>>), pts[Len(pts)])

----------------------------------------------------------------------------
(* GraphBuilder: the node-merge phase of createWallGraph                   *)

mergeDistance == 40

\* A wall stroke: `has` is false for a path without a segments list.
NoSegments == [has |-> FALSE, segments |-> <<>>]

Path(s) == [has |-> TRUE, segments |-> s]

\* graph.nodes[i], i being a 0-based index
NodeAt(ns, i) == ns[i + 1]

\* Mutant: a node at exactly mergeDistance merges as well.
findIndex_inclusive(ns, p) ==
    LET hits == {i \in 0..(Len(ns) - 1) :
                    RLe(DistSq(NodeAt(ns, i), p), Rat(mergeDistance * mergeDistance))}
    IN  IF hits = {} THEN -1
        ELSE CHOOSE i \in hits : \A j \in hits : i <= j

\* Mutant: findLastIndex in the place of findIndex.
findIndex_last(ns, p) ==
    LET hits == {i \in 0..(Len(ns) - 1) :
                    RLt(DistSq(NodeAt(ns, i), p), Rat(mergeDistance * mergeDistance))}
    IN  IF hits = {} THEN -1
        ELSE CHOOSE i \in hits : \A j \in hits : i >= j

\* graph.nodes.findIndex(n => distance(n, p) < mergeDistance): the lowest
\* 0-based index of a node closer than mergeDistance to p, or -1.
findIndex(ns, p) ==
    LET hits == {i \in 0..(Len(ns) - 1) :
                    RLt(DistSq(NodeAt(ns, i), p), Rat(mergeDistance * mergeDistance))}
    IN  IF hits = {} THEN -1
        ELSE CHOOSE i \in hits : \A j \in hits : i <= j

\* Find or add the node of endpoint p: the index and the node list after.
resolveNode(ns, p) ==
    LET idx == findIndex(ns, p)
    IN  IF idx = -1 THEN [idx |-> Len(ns), nodes |-> Append(ns, p)]
        ELSE [idx |-> idx, nodes |-> ns]

\* Mutant: both endpoints are looked up before either is pushed.
addSegment_lookupBeforePush(g, p1, p2) ==
    LET r1 == resolveNode(g.nodes, p1)
        i2 == findIndex(g.nodes, p2)
        r2 == IF i2 = -1 THEN [idx |-> Len(r1.nodes), nodes |-> Append(r1.nodes, p2)]
              ELSE [idx |-> i2, nodes |-> r1.nodes]
    IN  [nodes |-> r2.nodes,
         edges |-> IF r1.idx # r2.idx
                   THEN Append(g.edges, <<r1.idx, r2.idx>>) ELSE g.edges,
         resolved |-> g.resolved \o <<[p |-> p1, idx |-> r1.idx],
                                      [p |-> p2, idx |-> r2.idx]>>]

\* Mutant: the edge is pushed without the idx1 !== idx2 test.
addSegment_noLoopGuard(g, p1, p2) ==
    LET r1 == resolveNode(g.nodes, p1)
        r2 == resolveNode(r1.nodes, p2)
    IN  [nodes |-> r2.nodes,
         edges |-> Append(g.edges, <<r1.idx, r2.idx>>),
         resolved |-> g.resolved \o <<[p |-> p1, idx |-> r1.idx],
                                      [p |-> p2, idx |-> r2.idx]>>]

\* One iteration of the for loop over cleanedPoints (segment i, from 1) on
\* g = [nodes, edges, resolved].
addSegment(g, p1, p2) ==
    LET r1 == resolveNode(g.nodes, p1)
        r2 == resolveNode(r1.nodes, p2)
    IN  [nodes |-> r2.nodes,
         edges |-> IF r1.idx # r2.idx
                   THEN Append(g.edges, <<r1.idx, r2.idx>>) ELSE g.edges,
         resolved |-> g.resolved \o <<[p |-> p1, idx |-> r1.idx],
                                      [p |-> p2, idx |-> r2.idx]>>]

RECURSIVE segmentLoop(_, _, _)
segmentLoop(cp, i, g) ==
    IF i > Len(cp) - 1 THEN g
    ELSE Val({segmentLoop(cp, i + 1, g2) : g2 \in {addSegment(g, cp[i], cp[i + 1])}})

\* Mutant: a stroke of a single point leaves that point as a node.
processPath_lonePointNode(path, g) ==
    IF ~path.has THEN g
    ELSE IF Len(path.segments) = 1
    THEN [g EXCEPT !.nodes = resolveNode(g.nodes, path.segments[1]).nodes]
    ELSE Val({segmentLoop(cp, 1, g) : cp \in {removeColinearPoints(path.segments)}})

\* The body of wallPaths.forEach for one path.
processPath(path, g) ==
    IF ~path.has THEN g
    ELSE Val({segmentLoop(cp, 1, g) : cp \in {removeColinearPoints(path.segments)}})

RECURSIVE mergePhase(_, _, _)
mergePhase(paths, k, g) ==
    IF k > Len(paths) THEN g
    ELSE Val({mergePhase(paths, k + 1, g2) : g2 \in {processPath(paths[k], g)}})

EmptyGraph == [nodes |-> <<>>, edges |-> <<>>, resolved |-> <<>>]

----------------------------------------------------------------------------
(* AxisRectifier: the rectification pass and the edge deduplication        *)

\* The class of the edge n1 -> n2.  With dx, dy its components, the
\* normalized atan2 angle is within 10 degrees of 0 or 180 (or >= 350)
\* exactly when |dy| <= tan(10) * |dx| (atan2(0, 0) = 0 counts), and within
\* 10 degrees of 90 or 270 exactly when |dx| <= tan(10) * |dy|; the code
\* tests horizontal first.
classify(n1, n2) ==
    LET dx == RSub(n2.x, n1.x)
        dy == RSub(n2.y, n1.y)
        isNearHorizontal == RLe(RAbs(dy), RMul(TanTol, RAbs(dx)))
        isNearVertical == RLe(RAbs(dx), RMul(TanTol, RAbs(dy)))
    IN  IF isNearHorizontal THEN "horizontal"
        ELSE IF isNearVertical THEN "vertical"
        ELSE "none"

\* Mutant: only n1 takes the average, n2 is left as it was.
\* Mutant: both endpoints take the first endpoint's coordinate.
rectifyEdge_snapToFirst(ns, e) ==
    LET n1 == NodeAt(ns, e[1])
        n2 == NodeAt(ns, e[2])
        c == classify(n1, n2)
    IN  IF c = "horizontal"
        THEN [ns EXCEPT ![e[1] + 1].y = n1.y, ![e[2] + 1].y = n1.y]
        ELSE IF c = "vertical"
        THEN [ns EXCEPT ![e[1] + 1].x = n1.x, ![e[2] + 1].x = n1.x]
        ELSE ns

rectifyEdge_oneEnd(ns, e) ==
    LET n1 == NodeAt(ns, e[1])
        n2 == NodeAt(ns, e[2])
        c == classify(n1, n2)
        avgY == RDiv(RAdd(n1.y, n2.y), Rat(2))
        avgX == RDiv(RAdd(n1.x, n2.x), Rat(2))
    IN  IF c = "horizontal"
        THEN [ns EXCEPT ![e[1] + 1].y = avgY]
        ELSE IF c = "vertical"
        THEN [ns EXCEPT ![e[1] + 1].x = avgX]
        ELSE ns

\* The body of the rectification forEach for the edge e on the nodes ns.
rectifyEdge(ns, e) ==
    LET n1 == NodeAt(ns, e[1])
        n2 == NodeAt(ns, e[2])
        c == classify(n1, n2)
        avgY == RDiv(RAdd(n1.y, n2.y), Rat(2))
        avgX == RDiv(RAdd(n1.x, n2.x), Rat(2))
    IN  IF c = "horizontal"
        THEN [ns EXCEPT ![e[1] + 1].y = avgY, ![e[2] + 1].y = avgY]
        ELSE IF c = "vertical"
        THEN [ns EXCEPT ![e[1] + 1].x = avgX, ![e[2] + 1].x = avgX]
        ELSE ns

RECURSIVE rectifyPass(_, _, _)
rectifyPass(ns, es, k) ==
    IF k > Len(es) THEN ns
    ELSE Val({rectifyPass(ns2, es, k + 1) : ns2 \in {rectifyEdge(ns, es[k])}})

\* Mutant: the key keeps the direction of the edge.
edgeKey_directed(e) == <<e[1], e[2]>>

\* [Math.min(idx1, idx2), Math.max(idx1, idx2)].join('-')
edgeKey(e) == <<IF e[1] < e[2] THEN e[1] ELSE e[2], IF e[1] < e[2] THEN e[2] ELSE e[1]>>

\* Mutant: set on a key that is present keeps the old value.
mapSet_keepFirst(m, key, val) ==
    IF \E k \in 1..Len(m) : m[k].key = key
    THEN m
    ELSE Append(m, [key |-> key, val |-> val])

\* uniqueEdges.set(key, e) on a Map kept as a sequence of [key, val] in
\* insertion order: an existing key keeps its place and takes the new value.
mapSet(m, key, val) ==
    IF \E k \in 1..Len(m) : m[k].key = key
    THEN [k \in 1..Len(m) |-> IF m[k].key = key THEN [key |-> key, val |-> val] ELSE m[k]]
    ELSE Append(m, [key |-> key, val |-> val])

RECURSIVE uniqueEdgesLoop(_, _, _)
uniqueEdgesLoop(es, k, m) ==
    IF k > Len(es) THEN m
    ELSE Val({uniqueEdgesLoop(es, k + 1, m2) : m2 \in {mapSet(m, edgeKey(es[k]), es[k])}})

\* Array.from(uniqueEdges.values())
dedupeEdges(es) ==
    Val({[k \in 1..Len(m) |-> m[k].val] : m \in {uniqueEdgesLoop(es, 1, <<>>)}})

\* createWallGraph(wallPaths) as a whole
createWallGraph(paths) ==
    Val({[nodes |-> rectifyPass(g.nodes, g.edges, 1), edges |-> dedupeEdges(g.edges)]
            : g \in {mergePhase(paths, 1, EmptyGraph)}})

----------------------------------------------------------------------------
(* DoorProjector: findDoors                                                *)

\* result.distance of distanceToSegment for a segment that has a length,
\* operation by operation as the engine computes it: t clamped by
\* Math.max(0, Math.min(1, t)), the projection at t, and
\* Math.sqrt(distX * distX + distY * distY).
distance64(point, lineStart, lineEnd) ==
    LET f64(r) == IF r[2] = 1 THEN F64OfInt(r[1])
                  ELSE F64Div(F64OfInt(r[1]), F64OfInt(r[2]))
        clamp(t) == IF t = F64NaN THEN t
                    ELSE IF F64Lt(F64One, t) THEN F64One
                    ELSE IF F64Lt(F64Zero, t) THEN t
                    ELSE F64Zero
        tOf(p, s, dx, dy) ==
            Val({clamp(t) : t \in {F64Div(F64Add(F64Mul(F64Sub(p.x, s.x), dx),
                                                 F64Mul(F64Sub(p.y, s.y), dy)),
                                          F64Add(F64Mul(dx, dx), F64Mul(dy, dy)))}})
        distanceAt(p, s, dx, dy, t) ==
            Val({ F64Sqrt(F64Add(F64Mul(distX, distX), F64Mul(distY, distY)))
                  : distX \in {F64Sub(p.x, F64Add(s.x, F64Mul(t, dx)))},
                    distY \in {F64Sub(p.y, F64Add(s.y, F64Mul(t, dy)))} })
    IN  Val({ Val({ Val({ distanceAt(p, s, dx, dy, t) : t \in {tOf(p, s, dx, dy)} })
                    : dx \in {F64Sub(e.x, s.x)}, dy \in {F64Sub(e.y, s.y)} })
              : p \in {[x |-> f64(point.x), y |-> f64(point.y)]},
                s \in {[x |-> f64(lineStart.x), y |-> f64(lineStart.y)]},
                e \in {[x |-> f64(lineEnd.x), y |-> f64(lineEnd.y)]} })

\* distance64 for a set of triples <<point, lineStart, lineEnd>>
memoOf(triples) ==
    [a \in {c \in triples : c[2] # c[3]} |-> distance64(a[1], a[2], a[3])]

\* distanceToSegment(point, lineStart, lineEnd).  A zero-length segment
\* makes the code return a bare number (which nothing reads; it is kept as
\* its square); otherwise it returns an object {distance, projected}.
\* distance is the double of the engine, which is what snapToNearestEdge
\* compares; it is taken from distanceMemo when it was computed ahead.
\* projected is the exact point of which projectedX and projectedY are the
\* roundings.
distanceToSegment(point, lineStart, lineEnd) ==
    LET dx == RSub(lineEnd.x, lineStart.x)
        dy == RSub(lineEnd.y, lineStart.y)
        lengthSquared == RAdd(RMul(dx, dx), RMul(dy, dy))
    IN  IF lengthSquared = Rat(0)
        THEN [isObject |-> FALSE, number |-> DistSq(point, lineStart)]
        ELSE LET t0 == RDiv(RAdd(RMul(RSub(point.x, lineStart.x), dx),
                                 RMul(RSub(point.y, lineStart.y), dy)),
                            lengthSquared)
                 t == RMax(Rat(0), RMin(Rat(1), t0))
                 projected == [x |-> RAdd(lineStart.x, RMul(t, dx)),
                               y |-> RAdd(lineStart.y, RMul(t, dy))]
             IN  [isObject |-> TRUE,
                  distance |-> IF <<point, lineStart, lineEnd>> \in DOMAIN distanceMemo
                               THEN distanceMemo[<<point, lineStart, lineEnd>>]
                               ELSE distance64(point, lineStart, lineEnd),
                  projected |-> projected]

\* result.distance: undefined on a number, and undefined compares as NaN
resultDistance(result) == IF result.isObject THEN result.distance ELSE F64NaN

\* The body of graph.edges.forEach in snapToNearestEdge on
\* acc = [minDistance, snappedPoint].
snapStep(acc, point, n1, n2) ==
    Val({IF F64Lt(resultDistance(result), acc.minDistance)
         THEN [minDistance |-> result.distance, snappedPoint |-> result.projected]
         ELSE acc
            : result \in {distanceToSegment(point, n1, n2)}})

RECURSIVE snapLoop(_, _, _, _, _)
snapLoop(acc, point, ns, es, k) ==
    IF k > Len(es) THEN acc
    ELSE Val({snapLoop(acc2, point, ns, es, k + 1)
                 : acc2 \in {snapStep(acc, point, NodeAt(ns, es[k][1]), NodeAt(ns, es[k][2]))}})

snapToNearestEdge(point, ns, es) ==
    snapLoop([minDistance |-> F64Infinity, snappedPoint |-> point], point, ns, es, 1).snappedPoint

\* Mutant: doors.unshift where the code has doors.push.
doorOfPath_unshift(path, ds, ns, es) ==
    IF ~path.has \/ Len(path.segments) < 2 THEN ds
    ELSE LET startPoint == path.segments[1]
             endPoint == path.segments[Len(path.segments)]
         IN  <<[start |-> snapToNearestEdge(startPoint, ns, es),
                end |-> snapToNearestEdge(endPoint, ns, es),
                original |-> [start |-> startPoint, end |-> endPoint]]>> \o ds

\* The body of doorPaths.forEach: the doors array after the path.
doorOfPath(path, ds, ns, es) ==
    IF ~path.has \/ Len(path.segments) < 2 THEN ds
    ELSE LET startPoint == path.segments[1]
             endPoint == path.segments[Len(path.segments)]
         IN  Append(ds, [start |-> snapToNearestEdge(startPoint, ns, es),
                         end |-> snapToNearestEdge(endPoint, ns, es),
                         original |-> [start |-> startPoint, end |-> endPoint]])

RECURSIVE doorsLoop(_, _, _, _, _)
doorsLoop(paths, k, ds, ns, es) ==
    IF k > Len(paths) THEN ds
    ELSE Val({doorsLoop(paths, k + 1, ds2, ns, es) : ds2 \in {doorOfPath(paths[k], ds, ns, es)}})

\* findDoors(doorPaths, graph) as a whole
findDoors(paths, ns, es) == doorsLoop(paths, 1, <<>>, ns, es)

----------------------------------------------------------------------------
(* ScaleNormalizer: findBoundingBox, scaleToRealWorld                      *)

\* The paths.forEach / path.segments.forEach of findBoundingBox on
\* box = [minX, minY, maxX, maxY].
RECURSIVE boxOfPoints(_, _, _)
boxOfPoints(seg, i, box) ==
    IF i > Len(seg) THEN box
    ELSE Val({boxOfPoints(seg, i + 1, box2)
                 : box2 \in {[minX |-> RMin(box.minX, seg[i].x),
                              minY |-> RMin(box.minY, seg[i].y),
                              maxX |-> RMax(box.maxX, seg[i].x),
                              maxY |-> RMax(box.maxY, seg[i].y)]}})

RECURSIVE boxOfPaths(_, _, _)
boxOfPaths(paths, k, box) ==
    IF k > Len(paths) THEN box
    ELSE Val({boxOfPaths(paths, k + 1, box2)
                 : box2 \in {IF ~paths[k].has THEN box
                             ELSE boxOfPoints(paths[k].segments, 1, box)}})

findBoundingBox(paths) ==
    IF Len(paths) = 0
    THEN [minX |-> Rat(0), minY |-> Rat(0), maxX |-> Rat(0), maxY |-> Rat(0),
          width |-> Rat(0), height |-> Rat(0)]
    ELSE Val({[minX |-> box.minX, minY |-> box.minY, maxX |-> box.maxX, maxY |-> box.maxY,
              width |-> RSub(box.maxX, box.minX), height |-> RSub(box.maxY, box.minY),
              centerX |-> RDiv(RAdd(box.minX, box.maxX), Rat(2)),
              centerY |-> RDiv(RAdd(box.minY, box.maxY), Rat(2))]
                : box \in {boxOfPaths(paths, 1, [minX |-> Infinity, minY |-> Infinity,
                                                  maxX |-> RNeg(Infinity),
                                                  maxY |-> RNeg(Infinity)])}})

scalePoint(p, scaleFactor) == [x |-> RMul(p.x, scaleFactor), y |-> RMul(p.y, scaleFactor)]

\* Mutant: the doors' original points are scaled as well.
scaleToRealWorld_scaledOriginal(ns, es, ds, dimensionValue, boundingBoxLength) ==
    LET scaleFactor == RDiv(Rat(12), boundingBoxLength)
    IN  [wallGraph |-> [nodes |-> [i \in 1..Len(ns) |-> scalePoint(ns[i], scaleFactor)],
                        edges |-> es],
         doors |-> [i \in 1..Len(ds) |->
                       [start |-> scalePoint(ds[i].start, scaleFactor),
                        end |-> scalePoint(ds[i].end, scaleFactor),
                        original |-> [start |-> scalePoint(ds[i].original.start, scaleFactor),
                                      end |-> scalePoint(ds[i].original.end, scaleFactor)]]],
         scaleFactor |-> scaleFactor]

\* scaleToRealWorld(wallGraph, doors, dimensionValue, boundingBoxLength)
scaleToRealWorld(ns, es, ds, dimensionValue, boundingBoxLength) ==
    LET scaleFactor == RDiv(Rat(12), boundingBoxLength)
    IN  [wallGraph |-> [nodes |-> [i \in 1..Len(ns) |-> scalePoint(ns[i], scaleFactor)],
                        edges |-> es],
         doors |-> [i \in 1..Len(ds) |->
                       [start |-> scalePoint(ds[i].start, scaleFactor),
                        end |-> scalePoint(ds[i].end, scaleFactor),
                        original |-> ds[i].original]],
         scaleFactor |-> scaleFactor]

\* Mutant: the wall ids count from 1.
wallsOf_oneBased(ns, es) ==
    [k \in 1..Len(es) |->
        [wall_id |-> "wall_" \o ToString(k),
         start_point |-> [x |-> NodeAt(ns, es[k][1]).x, y |-> NodeAt(ns, es[k][1]).y],
         end_point |-> [x |-> NodeAt(ns, es[k][2]).x, y |-> NodeAt(ns, es[k][2]).y]]]

\* The walls array of send; wallGraph.edges.map passes the 0-based idx.
wallsOf(ns, es) ==
    [k \in 1..Len(es) |->
        [wall_id |-> "wall_" \o ToString(k - 1),
         start_point |-> [x |-> NodeAt(ns, es[k][1]).x, y |-> NodeAt(ns, es[k][1]).y],
         end_point |-> [x |-> NodeAt(ns, es[k][2]).x, y |-> NodeAt(ns, es[k][2]).y]]]

\* Mutant: any non-null recognizer result counts as a dimension.
truthy_anyResult(d) == d.kind \in {"text", "value"}

\* Truthiness of dimensionData && dimensionData.dimension_value
truthy(d) ==
    /\ d.kind = "value"
    /\ d.dimension_value # Rat(0)
    /\ ~IsNaN(d.dimension_value)

----------------------------------------------------------------------------
(* Specification of the simplifier alone: an input stroke, simplified once *)
(* and then once more on its own output.                                   *)

MaxLen == 4

SeqsUpTo(S, n) == UNION {[1..k -> S] : k \in 0..n}

GraphIdle ==
    /\ wallPaths = <<>>
    /\ pathIdx = 1
    /\ nodes = <<>>
    /\ edges = <<>>
    /\ edgeIdx = 1
    /\ resolved = <<>>
    /\ cls = <<>>
    /\ builtNodes = <<>>
    /\ rawEdges = <<>>

DoorIdle ==
    /\ doorPaths = <<>>
    /\ doorIdx = 1
    /\ doors = <<>>

NoScaleCall ==
    [called |-> FALSE, dimensionValue |-> NaN, boundingBoxLength |-> NaN, scaleFactor |-> NaN]

SendIdle ==
    /\ apiKey = FALSE
    /\ dimsPath = <<>>
    /\ length = Rat(0)
    /\ dimensionData = [kind |-> "pending", dimension_value |-> NaN]
    /\ scaleCall = NoScaleCall
    /\ pixelData = [nodes |-> <<>>, doors |-> <<>>]
    /\ finalJSON = [walls |-> <<>>, doors |-> <<>>]

SimplIdle ==
    /\ points = <<>>
    /\ cleaned = <<>>
    /\ cleaned2 = <<>>

NotScaled == [done |-> FALSE, out |-> [nodes |-> <<>>, doors |-> <<>>, scaleFactor |-> NaN]]

ScaleIdle ==
    /\ scaleIn = [nodes |-> <<>>, doors |-> <<>>, lengths |-> <<>>]
    /\ scaleOut = [s |-> NotScaled, st |-> NotScaled, product |-> NotScaled, length |-> NotScaled]

\* an optional value: a property that may be missing from its object
Missing == [has |-> FALSE, val |-> <<>>]

Some(v) == [has |-> TRUE, val |-> v]

NoGraphData == [given |-> FALSE, walls |-> Missing, doors |-> Missing]

NoResult == [resolved |-> FALSE, walls |-> <<>>, doors |-> <<>>, rooms |-> <<>>]

\* nothing in progress: draw mode, button up, path = null
NoTool == [mounted |-> TRUE, mode |-> "draw", pressed |-> FALSE, path |-> "none", events |-> 0]

SameLayer == [added |-> <<>>, removed |-> {}]

ToolIdle ==
    /\ tool = NoTool
    /\ layer = SameLayer

ParseIdle ==
    /\ parseIn = [options |-> [useGraphData |-> FALSE, graphData |-> NoGraphData], canvas |-> FALSE]
    /\ parseSt = [walls |-> <<>>, doors |-> <<>>, rooms |-> <<>>,
                  called |-> <<>>, failed |-> {}, result |-> NoResult]

InitSimplify ==
    /\ pc = "input"
    /\ points \in SeqsUpTo({Pt(0, 0), Pt(5, 0), Pt(5, 1), Pt(10, 0), Pt(10, 1), Pt(20, 2)},
                           MaxLen)
    /\ cleaned = <<>>
    /\ cleaned2 = <<>>
    /\ GraphIdle
    /\ DoorIdle
    /\ SendIdle
    /\ ScaleIdle
    /\ ParseIdle
    /\ ToolIdle
    /\ distanceMemo = <<>>

Simplify ==
    /\ pc = "input"
    /\ cleaned' = removeColinearPoints(points)
    /\ pc' = "simplified"
    /\ UNCHANGED <<distanceMemo, tool, layer, parseVars, scaleVars, points, cleaned2, graphVars, doorVars, sendVars>>

SimplifyAgain ==
    /\ pc = "simplified"
    /\ cleaned2' = removeColinearPoints(cleaned)
    /\ pc' = "resimplified"
    /\ UNCHANGED <<distanceMemo, tool, layer, parseVars, scaleVars, points, cleaned, graphVars, doorVars, sendVars>>

NextSimplify == Simplify \/ SimplifyAgain

SpecSimplify == InitSimplify /\ [][NextSimplify]_vars

----------------------------------------------------------------------------
(* Properties of the simplifier                                            *)

\* s is an order-preserving subsequence of t
RECURSIVE IsSubseq(_, _)
IsSubseq(s, t) ==
    IF s = <<>> THEN TRUE
    ELSE IF t = <<>> THEN FALSE
    ELSE IF Head(s) = Head(t) THEN IsSubseq(Tail(s), Tail(t))
    ELSE IsSubseq(s, Tail(t))

\* The indices of pts that removeColinearPoints retains, in order.
RECURSIVE keptLoop(_, _, _)
keptLoop(pts, i, kept) ==
    IF i > Len(pts) - 1 THEN kept
    ELSE keptLoop(pts, i + 1,
                  IF ~areColinear(pts[kept[Len(kept)]], pts[i], pts[i + 1])
                  THEN Append(kept, i) ELSE kept)

KeptIdx(pts) ==
    IF Len(pts) <= 2 THEN [k \in 1..Len(pts) |-> k]
    ELSE Append(keptLoop(pts, 2, <<1>>), Len(pts))

\* Every interior point the pass keeps is directly followed in pts by a
\* point the pass keeps too (or by the last point of pts).
KeptFollowedByKept(pts) ==
    LET K == {KeptIdx(pts)[k] : k \in 1..Len(KeptIdx(pts))}
    IN  \A i \in K : (1 < i /\ i < Len(pts)) => (i + 1) \in K

\* C4 as stated: simplifying the simplifier's output changes nothing.
C4_Idempotent ==
    pc = "resimplified" => cleaned2 = cleaned

\* C4 amended: the second pass changes nothing when every interior point
\* kept by the first pass is directly followed in the input by a point the
\* first pass keeps as well (so the second pass sees the same triples); this
\* covers every input of at most 3 points and every input the first pass
\* leaves whole.
C4_IdempotentWhenKeptAdjacent ==
    pc = "resimplified" =>
        /\ KeptFollowedByKept(points) => cleaned2 = cleaned
        /\ Len(points) <= 3 => KeptFollowedByKept(points)
        /\ cleaned = points => KeptFollowedByKept(points)

\* A 4-point stroke that loses one interior point and keeps the other, and
\* whose second simplification returns the same 3 points.
C4_Witness ==
    /\ pc = "resimplified"
    /\ Len(points) = 4
    /\ Cardinality({points[k] : k \in 1..4}) = 4
    /\ Len(cleaned) = 3
    /\ KeptFollowedByKept(points)
    /\ cleaned2 = cleaned

\* C10: removeColinearPoints(P) is an order-preserving subsequence of P, no
\* longer than P, with P's first and last points as its first and last; an
\* input of at most 2 points is returned as it is.
C10_SubsequenceKeepingEndpoints ==
    pc # "input" =>
        /\ IsSubseq(cleaned, points)
        /\ Len(cleaned) <= Len(points)
        /\ Len(points) >= 1 =>
              /\ Len(cleaned) >= 1
              /\ cleaned[1] = points[1]
              /\ cleaned[Len(cleaned)] = points[Len(points)]
        /\ Len(points) <= 2 => cleaned = points

\* A stroke of 4 distinct points simplified to its two endpoints.
C10_Witness ==
    /\ pc = "simplified"
    /\ Len(points) = 4
    /\ Cardinality({points[k] : k \in 1..4}) = 4
    /\ cleaned = <<points[1], points[4]>>

----------------------------------------------------------------------------
(* Specification of createWallGraph: the wall strokes of the layer, then   *)
(* one step per stroke, one per rectified edge, and the deduplication.     *)

MaxSize == 5

\* The shapes of the stroke lists of total size at most b: one entry per
\* stroke, its number of points, or -1 for a path without a segments list; a
\* stroke counts for one plus the number of its points.
RECURSIVE Shapes(_)
Shapes(b) ==
    IF b <= 0 THEN {<<>>}
    ELSE {<<>>} \cup
         UNION {{<<n>> \o rest : rest \in Shapes(b - 1 - (IF n < 0 THEN 0 ELSE n))} :
                    n \in (-1)..(b - 1)}

RECURSIVE SumSeq(_)
SumSeq(ns) == IF ns = <<>> THEN 0 ELSE (IF Head(ns) < 0 THEN 0 ELSE Head(ns)) + SumSeq(Tail(ns))

\* The stroke list of a shape, its points taken in order from flat.
RECURSIVE PathsOf(_, _)
PathsOf(shape, flat) ==
    IF shape = <<>> THEN <<>>
    ELSE IF Head(shape) < 0 THEN <<NoSegments>> \o PathsOf(Tail(shape), flat)
    ELSE <<Path(SubSeq(flat, 1, Head(shape)))>>
            \o PathsOf(Tail(shape), SubSeq(flat, Head(shape) + 1, Len(flat)))

InitGraph ==
    /\ pc = "merge"
    /\ \E shape \in Shapes(MaxSize) :
          \E flat \in [1..SumSeq(shape) ->
                          {Pt(0, 0), Pt(30, 0), Pt(60, 10), Pt(100, 10), Pt(5, 40)}] :
              wallPaths = PathsOf(shape, flat)
    /\ pathIdx = 1
    /\ nodes = <<>>
    /\ edges = <<>>
    /\ edgeIdx = 1
    /\ resolved = <<>>
    /\ cls = <<>>
    /\ builtNodes = <<>>
    /\ rawEdges = <<>>
    /\ SimplIdle
    /\ DoorIdle
    /\ SendIdle
    /\ ScaleIdle
    /\ ParseIdle
    /\ ToolIdle
    /\ distanceMemo = <<>>

\* wallPaths.forEach: one wall stroke
ProcessPath ==
    /\ pc = "merge"
    /\ pathIdx <= Len(wallPaths)
    /\ LET g == processPath(wallPaths[pathIdx],
                            [nodes |-> nodes, edges |-> edges, resolved |-> resolved])
       IN  /\ nodes' = g.nodes
           /\ edges' = g.edges
           /\ resolved' = g.resolved
    /\ pathIdx' = pathIdx + 1
    /\ UNCHANGED <<distanceMemo, tool, layer, parseVars, scaleVars, pc, wallPaths, edgeIdx, cls, builtNodes, rawEdges, simplVars, doorVars, sendVars>>

\* every stroke is handled: the rectification pass starts
StartRectify ==
    /\ pc = "merge"
    /\ pathIdx > Len(wallPaths)
    /\ pc' = "rectify"
    /\ builtNodes' = nodes
    /\ edgeIdx' = 1
    /\ UNCHANGED <<distanceMemo, tool, layer, parseVars, scaleVars, wallPaths, pathIdx, nodes, edges, resolved, cls, rawEdges, simplVars, doorVars, sendVars>>

\* graph.edges.forEach of the rectification: one edge
RectifyEdge ==
    /\ pc = "rectify"
    /\ edgeIdx <= Len(edges)
    /\ nodes' = rectifyEdge(nodes, edges[edgeIdx])
    /\ cls' = Append(cls, classify(NodeAt(nodes, edges[edgeIdx][1]),
                                   NodeAt(nodes, edges[edgeIdx][2])))
    /\ edgeIdx' = edgeIdx + 1
    /\ UNCHANGED <<distanceMemo, tool, layer, parseVars, scaleVars, pc, wallPaths, pathIdx, edges, resolved, builtNodes, rawEdges, simplVars, doorVars, sendVars>>

\* every edge is rectified: duplicates are removed and the graph returned
Dedupe ==
    /\ pc = "rectify"
    /\ edgeIdx > Len(edges)
    /\ rawEdges' = edges
    /\ edges' = dedupeEdges(edges)
    /\ pc' = "returned"
    /\ UNCHANGED <<distanceMemo, tool, layer, parseVars, scaleVars, wallPaths, pathIdx, nodes, edgeIdx, resolved, cls, builtNodes, simplVars, doorVars, sendVars>>

NextGraph == ProcessPath \/ StartRectify \/ RectifyEdge \/ Dedupe

SpecGraph == InitGraph /\ [][NextGraph]_vars

\* The steps compose to createWallGraph.
StepsAreCreateWallGraph ==
    pc = "returned" =>
        createWallGraph(wallPaths) = [nodes |-> nodes, edges |-> edges]

----------------------------------------------------------------------------
(* Properties of createWallGraph                                           *)

Close(p, q) == RLt(DistSq(p, q), Rat(mergeDistance * mergeDistance))

\* The nodes where the merge phase put them (rectification moves them later).
AnchorNodes == IF pc = "merge" THEN nodes ELSE builtNodes

\* The edges the rectification pass runs over.
PassEdges == IF pc = "returned" THEN rawEdges ELSE edges

\* Every node anchor close to one of p, q is close to the other.
SameNearNodes(p, q) ==
    \A i \in 1..Len(AnchorNodes) : Close(AnchorNodes[i], p) <=> Close(AnchorNodes[i], q)

\* The merge phase has handled every stroke (rectification has not begun).
MergeDone == pc = "merge" /\ pathIdx > Len(wallPaths)

\* The resolutions made, as a set of [p, idx].
Resolutions == {resolved[k] : k \in 1..Len(resolved)}

\* C2 as stated: two resolved stroke points closer than mergeDistance have
\* the same node index.
C2_CloseRawPointsShareNode ==
    MergeDone =>
        \A r1, r2 \in Resolutions : Close(r1.p, r2.p) => r1.idx = r2.idx

\* C2 amended: two resolved stroke points closer than mergeDistance have the
\* same node index when every node (at its first-seen position) closer than
\* mergeDistance to one of them is closer than mergeDistance to the other.
C2_CloseRawPointsWithSameNearNodesShareNode ==
    MergeDone =>
        \A r1, r2 \in Resolutions :
            (Close(r1.p, r2.p) /\ SameNearNodes(r1.p, r2.p)) => r1.idx = r2.idx

\* Two different stroke points merged into one node of a graph that has
\* another node too.
C2_Witness ==
    /\ MergeDone
    /\ Len(nodes) >= 2
    /\ \E r1, r2 \in Resolutions :
          /\ r1.p # r2.p
          /\ Close(r1.p, r2.p)
          /\ SameNearNodes(r1.p, r2.p)
          /\ r1.idx = r2.idx

Aligned(k) ==
    LET n1 == NodeAt(nodes, PassEdges[k][1])
        n2 == NodeAt(nodes, PassEdges[k][2])
    IN  /\ cls[k] = "horizontal" => n1.y = n2.y
        /\ cls[k] = "vertical" => n1.x = n2.x

\* C3 as stated: in the returned graph every edge classified near-horizontal
\* when it was processed has equal y on its endpoints, every edge classified
\* near-vertical equal x.
C3_ClassifiedEdgesAligned ==
    pc = "returned" => \A k \in 1..Len(cls) : Aligned(k)

\* Edge m has exactly one endpoint node in common with edge k.
SharesOneNode(k, m) ==
    /\ {PassEdges[k][1], PassEdges[k][2]} \cap {PassEdges[m][1], PassEdges[m][2]} # {}
    /\ {PassEdges[k][1], PassEdges[k][2]} # {PassEdges[m][1], PassEdges[m][2]}

\* C3 amended: an edge classified near-horizontal (near-vertical) when it
\* was processed has equal y (x) on its endpoints, during the pass and in
\* the returned graph, provided no edge processed after it and classified the
\* same way shares exactly one endpoint node with it.
C3_ClassifiedEdgesAlignedUnlessMovedLater ==
    \A k \in 1..Len(cls) :
        (\A m \in (k + 1)..Len(cls) : cls[m] = cls[k] => ~SharesOneNode(k, m))
            => Aligned(k)

\* A returned graph of two edges or more, one of them near-horizontal with
\* endpoints that were built at different heights and share their y now.
C3_Witness ==
    /\ pc = "returned"
    /\ Len(rawEdges) >= 2
    /\ \E k \in 1..Len(cls) :
          /\ cls[k] = "horizontal"
          /\ NodeAt(builtNodes, rawEdges[k][1]).y # NodeAt(builtNodes, rawEdges[k][2]).y
          /\ NodeAt(nodes, rawEdges[k][1]).y = NodeAt(nodes, rawEdges[k][2]).y
          /\ \E m \in 1..Len(cls) : SharesOneNode(k, m)

\* C5: no edge of the graph, before or after deduplication, joins a node to
\* itself.
C5_NoSelfLoops ==
    \A k \in 1..Len(edges) : edges[k][1] # edges[k][2]

\* A segment whose two endpoints resolved to one node was met, and the graph
\* has edges.
C5_Witness ==
    /\ pc = "returned"
    /\ Len(edges) >= 1
    /\ \E m \in 1..(Len(resolved) \div 2) : resolved[2 * m - 1].idx = resolved[2 * m].idx

\* C6: no two entries of the returned edges join the same unordered pair of
\* nodes.
C6_EdgesUnique ==
    pc = "returned" =>
        \A k, m \in 1..Len(edges) :
            k # m => {edges[k][1], edges[k][2]} # {edges[m][1], edges[m][2]}

\* The raw edges held a pair in both directions; one entry is left of it.
C6_Witness ==
    /\ pc = "returned"
    /\ Len(edges) >= 1
    /\ \E k, m \in 1..Len(rawEdges) :
          /\ k < m
          /\ rawEdges[k][1] = rawEdges[m][2]
          /\ rawEdges[k][2] = rawEdges[m][1]

----------------------------------------------------------------------------
(* Specification of findDoors: the graph createWallGraph returns for the   *)
(* wall strokes of the layer, and door strokes, then one step per door     *)
(* stroke.  send calls findDoors with that graph only.  The size of the    *)
(* door strokes is one for each stroke plus the number of its points, at   *)
(* most MaxDoorSize.                                                       *)

MaxDoorSize == 7

\* Strokes with points from grid S, as PathsOf builds them from a shape.
RECURSIVE StrokesOf(_, _)
StrokesOf(shape, flat) ==
    IF shape = <<>> THEN <<>>
    ELSE IF Head(shape) < 0 THEN <<NoSegments>> \o StrokesOf(Tail(shape), flat)
    ELSE <<Path(SubSeq(flat, 1, Head(shape)))>>
            \o StrokesOf(Tail(shape), SubSeq(flat, Head(shape) + 1, Len(flat)))

\* DoorWallMenu pairs wall strokes with the points door strokes are drawn
\* from: no wall; a stroke of two points that merge into one node (no
\* edge); a corner, one wall horizontal and one vertical; a stroke whose
\* rectification makes the edge [0,1] vertical at x = 1 and then the edge
\* [1,2] horizontal at y = 0, which moves node 1 onto node 0 and leaves
\* [0,1] with no length; and the two slanted walls of TieNodes in either
\* order, with a point at the same distance from both.  distanceMemo holds
\* the distances of the points to the edges of these graphs.
InitDoors ==
    LET DoorPointGrid == {Pt(80, 20), Pt(-10, -10)}
        TieNodes == <<Pt(300, 250), Pt(550, 350), Pt(250, 250), Pt(500, 350)>>
        TiePointGrid == {Pt(400, 300), Pt(380, 330)}
        DoorWallMenu ==
            {[walls |-> <<>>, points |-> DoorPointGrid],
             [walls |-> <<Path(<<Pt(0, 0), Pt(10, 5)>>)>>, points |-> DoorPointGrid],
             [walls |-> <<Path(<<Pt(0, 0), Pt(100, 0), Pt(100, 50)>>)>>, points |-> DoorPointGrid],
             [walls |-> <<Path(<<Pt(0, 0), Pt(2, 40), Pt(501, -40)>>)>>, points |-> DoorPointGrid],
             [walls |-> <<Path(<<TieNodes[1], TieNodes[2]>>), Path(<<TieNodes[3], TieNodes[4]>>)>>,
              points |-> TiePointGrid],
             [walls |-> <<Path(<<TieNodes[3], TieNodes[4]>>), Path(<<TieNodes[1], TieNodes[2]>>)>>,
              points |-> TiePointGrid]}
        edgeTriples(m) ==
            Val({ {<<p, NodeAt(g.nodes, g.edges[k][1]), NodeAt(g.nodes, g.edges[k][2])>>
                      : p \in m.points, k \in 1..Len(g.edges)}
                  : g \in {createWallGraph(m.walls)} })
    IN
    /\ distanceMemo = memoOf(UNION {edgeTriples(m) : m \in DoorWallMenu})
    /\ pc = "doors"
    /\ \E m \in DoorWallMenu :
          /\ wallPaths = m.walls
          /\ \E g \in {createWallGraph(m.walls)} :
                /\ nodes = g.nodes
                /\ edges = g.edges
          /\ \E shape \in Shapes(MaxDoorSize) :
                \E flat \in [1..SumSeq(shape) -> m.points] :
                    doorPaths = StrokesOf(shape, flat)
    /\ doorIdx = 1
    /\ doors = <<>>
    /\ pathIdx = 1
    /\ edgeIdx = 1
    /\ resolved = <<>>
    /\ cls = <<>>
    /\ builtNodes = <<>>
    /\ rawEdges = <<>>
    /\ SimplIdle
    /\ SendIdle
    /\ ScaleIdle
    /\ ParseIdle
    /\ ToolIdle

\* doorPaths.forEach: one door stroke
DoorPath ==
    /\ pc = "doors"
    /\ doorIdx <= Len(doorPaths)
    /\ doors' = doorOfPath(doorPaths[doorIdx], doors, nodes, edges)
    /\ doorIdx' = doorIdx + 1
    /\ UNCHANGED <<distanceMemo, tool, layer, parseVars, scaleVars, pc, doorPaths, graphVars, simplVars, sendVars>>

\* every door stroke is handled: findDoors returns doors
DoorsReturn ==
    /\ pc = "doors"
    /\ doorIdx > Len(doorPaths)
    /\ pc' = "doorsReturned"
    /\ UNCHANGED <<distanceMemo, tool, layer, parseVars, scaleVars, doorVars, graphVars, simplVars, sendVars>>

NextDoors == DoorPath \/ DoorsReturn

SpecDoors == InitDoors /\ [][NextDoors]_vars

\* The steps compose to findDoors.
StepsAreFindDoors ==
    pc = "doorsReturned" => findDoors(doorPaths, nodes, edges) = doors

----------------------------------------------------------------------------
(* Properties of findDoors                                                 *)

\* The point of the segment a-b nearest to p; a itself when a = b.
Nearest(p, a, b) ==
    IF a = b THEN a
    ELSE LET dx == RSub(b.x, a.x)
             dy == RSub(b.y, a.y)
             t0 == RDiv(RAdd(RMul(RSub(p.x, a.x), dx), RMul(RSub(p.y, a.y), dy)),
                        RAdd(RMul(dx, dx), RMul(dy, dy)))
             t == IF RLt(t0, Rat(0)) THEN Rat(0) ELSE IF RLt(Rat(1), t0) THEN Rat(1) ELSE t0
         IN  [x |-> RAdd(a.x, RMul(t, dx)), y |-> RAdd(a.y, RMul(t, dy))]

EdgeStart(k) == NodeAt(nodes, edges[k][1])
EdgeEnd(k) == NodeAt(nodes, edges[k][2])

\* squared distance from p to wall edge k
EdgeDistSq(p, k) == DistSq(p, Nearest(p, EdgeStart(k), EdgeEnd(k)))

Degenerate(k) == EdgeStart(k) = EdgeEnd(k)

\* s lies on the finite segment of wall edge k
OnEdge(s, k) ==
    LET a == EdgeStart(k)
        b == EdgeEnd(k)
    IN  /\ RSub(RMul(RSub(b.x, a.x), RSub(s.y, a.y)),
                RMul(RSub(b.y, a.y), RSub(s.x, a.x))) = Rat(0)
        /\ RLe(RMin(a.x, b.x), s.x) /\ RLe(s.x, RMax(a.x, b.x))
        /\ RLe(RMin(a.y, b.y), s.y) /\ RLe(s.y, RMax(a.y, b.y))

\* The door endpoints findDoors has snapped: [p: raw endpoint, s: snapped]
Snaps ==
    {[p |-> doors[i].original.start, s |-> doors[i].start] : i \in 1..Len(doors)}
        \cup {[p |-> doors[i].original.end, s |-> doors[i].end] : i \in 1..Len(doors)}

\* wall edge m ends at position X
EndsAt(m, X) == EdgeStart(m) = X \/ EdgeEnd(m) = X

\* X is the wall point nearest to p: no edge is nearer to p than X, and
\* every edge that does not end at X is strictly further
NearestWallPoint(p, X) ==
    \A m \in 1..Len(edges) :
        IF EndsAt(m, X) THEN ~RLt(EdgeDistSq(p, m), DistSq(p, X))
        ELSE RLt(DistSq(p, X), EdgeDistSq(p, m))

\* In the graphs createWallGraph returns, an edge with a length ends at the
\* position of every zero-length edge: the edge whose rectification moved
\* one node onto the other.
ZeroLengthEdgeSharesNode ==
    \A k \in 1..Len(edges) :
        Degenerate(k) => \E m \in 1..Len(edges) : ~Degenerate(m) /\ EndsAt(m, EdgeStart(k))

C9_SnapsToNearestSegmentPoint ==
    (\E k \in 1..Len(edges) : ~Degenerate(k)) =>
        \A r \in Snaps :
            /\ \E k \in 1..Len(edges) : OnEdge(r.s, k)
            /\ \A m \in 1..Len(edges) : ~RLt(EdgeDistSq(r.p, m), DistSq(r.p, r.s))
            /\ \E k \in 1..Len(edges) :
                  /\ r.s = Nearest(r.p, EdgeStart(k), EdgeEnd(k))
                  /\ \A m \in 1..(k - 1) : RLt(EdgeDistSq(r.p, k), EdgeDistSq(r.p, m))

----------------------------------------------------------------------------
(* Specification of send: the strokes of the active layer by colour, then  *)
(* one step per statement of the handler.                                  *)

MaxDimSize == 3

SendWallMenu ==
    { <<>>,
      <<Path(<<Pt(50, 50), Pt(250, 50)>>)>>,
      <<Path(<<Pt(50, 50), Pt(250, 56), Pt(250, 200)>>), NoSegments>>,
      <<Path(<<Pt(50, 50), Pt(250, 50)>>), Path(<<Pt(260, 60), Pt(400, 200)>>)>> }

SendDoorMenu ==
    { <<>>,
      <<Path(<<Pt(100, 60), Pt(160, 60)>>)>>,
      <<Path(<<Pt(240, 100)>>), Path(<<Pt(240, 100), Pt(230, 120), Pt(240, 150)>>)>> }

MaxEvents == 2

MouseGrid == {Pt(250, 200)}

\* path.simplify(10) of paper.js: the path is refitted with curves through
\* its points.  The new segments start at the first point, end at the last
\* one and have between them the points at which the fit was split; where
\* it is split depends on the fitting error, so every choice of points
\* between is a result.  Up to two points there is nothing to choose.
\* The fitter takes the points of the path (fitterPoints), a point equal
\* to the one before left out.
simplify(segs) ==
    LET RECURSIVE fitterPoints(_)
        fitterPoints(i) ==
            IF i > Len(segs) THEN <<>>
            ELSE (IF i > 1 /\ segs[i] = segs[i - 1] THEN <<>> ELSE <<segs[i]>>)
                    \o fitterPoints(i + 1)
        RECURSIVE pick(_, _, _)
        pick(pts, i, K) ==
            IF i > Len(pts) THEN <<>>
            ELSE (IF i \in K THEN <<pts[i]>> ELSE <<>>) \o pick(pts, i + 1, K)
    IN  UNION {{pick(pts, 1, K \cup {1, Len(pts)}) : K \in SUBSET (2..(Len(pts) - 1))}
                  : pts \in {fitterPoints(1)}}

\* The stroke a list of send ends with, when it is a path with a point:
\* the path variable refers to the stroke drawn last, which is the last of
\* its colour.
LastDrawn(paths) ==
    /\ Len(paths) > 0
    /\ paths[Len(paths)].has
    /\ Len(paths[Len(paths)].segments) > 0

\* what the variable path can refer to: null ("none"), or the last stroke
\* of one of the three colours that send selects
Refers(ref, ws, ds, ms) ==
    CASE ref = "wall" -> LastDrawn(ws)
      [] ref = "door" -> LastDrawn(ds)
      [] ref = "dims" -> LastDrawn(ms)
      [] OTHER -> ref = "none"

\* What a list of strokes can be when send reads it after its wait;
\* strokesAfter(S, k) are the points the strokes of S can have after up to
\* k events of the tool.
listsAfter(paths) ==
    LET RECURSIVE strokesAfter(_, _)
        strokesAfter(S, k) ==
            IF k = 0 THEN S
            ELSE strokesAfter(S \cup {Append(segs, p) : segs \in S, p \in MouseGrid}
                                \cup UNION {simplify(segs) : segs \in S}, k - 1)
    IN  {paths} \cup
            (IF LastDrawn(paths)
             THEN {[paths EXCEPT ![Len(paths)] = Path(segs)]
                      : segs \in strokesAfter({paths[Len(paths)].segments}, MaxEvents)}
             ELSE {})

\* The triples <<point, lineStart, lineEnd>> that distanceToSegment can get
\* in send: the first and last points of the door strokes with the wall
\* edges, as pairs of positions, of the graphs of the wall strokes.
SendTriples ==
    LET SendEdges ==
            UNION {{<<NodeAt(g.nodes, g.edges[k][1]), NodeAt(g.nodes, g.edges[k][2])>>
                       : k \in 1..Len(g.edges)}
                      : g \in {createWallGraph(ws)
                                  : ws \in UNION {listsAfter(m) : m \in SendWallMenu}}}
        SendDoorEnds ==
            UNION {UNION {{ds[i].segments[1], ds[i].segments[Len(ds[i].segments)]}
                             : i \in {j \in 1..Len(ds) : ds[j].has /\ Len(ds[j].segments) >= 2}}
                      : ds \in UNION {listsAfter(m) : m \in SendDoorMenu}}
    IN  {<<p, ge[1], ge[2]>> : p \in SendDoorEnds, ge \in SendEdges}

\* The dimension strokes: none, strokes without a point, a lone point, a
\* stroke that spans 240 by 120 pixels.  Their size, one for each stroke
\* and each of its points, is at most MaxDimSize.  The tool when send is
\* clicked: at rest in draw or in erase mode, or the button is down on a
\* stroke being drawn.  With the button up the value of path is not read
\* before onMouseDown sets it.
Init ==
    LET RECURSIVE StrokesSize(_)
        StrokesSize(paths) ==
            IF paths = <<>> THEN 0
            ELSE 1 + Len(Head(paths).segments) + StrokesSize(Tail(paths))
        SendDimMenu ==
            {ms \in { <<>>,
                      <<NoSegments>>,
                      <<Path(<<>>)>>,
                      <<Path(<<Pt(300, 300)>>)>>,
                      <<Path(<<Pt(300, 300), Pt(540, 420)>>)>>,
                      <<Path(<<Pt(540, 420), Pt(300, 300)>>), NoSegments>>,
                      <<Path(<<Pt(300, 300), Pt(540, 420), Pt(420, 300)>>)>> } :
                 StrokesSize(ms) <= MaxDimSize}
        SendToolMenu ==
            {NoTool, [NoTool EXCEPT !.mode = "erase"]}
                \cup {[NoTool EXCEPT !.pressed = TRUE, !.path = ref]
                          : ref \in {"wall", "door", "dims"}}
    IN
    /\ distanceMemo = memoOf(SendTriples)
    /\ pc = "send"
    /\ apiKey \in BOOLEAN
    /\ wallPaths \in SendWallMenu
    /\ doorPaths \in SendDoorMenu
    /\ dimsPath \in SendDimMenu
    /\ length = Rat(0)
    /\ dimensionData = [kind |-> "pending", dimension_value |-> NaN]
    /\ scaleCall = NoScaleCall
    /\ pixelData = [nodes |-> <<>>, doors |-> <<>>]
    /\ finalJSON = [walls |-> <<>>, doors |-> <<>>]
    /\ pathIdx = 1
    /\ nodes = <<>>
    /\ edges = <<>>
    /\ edgeIdx = 1
    /\ resolved = <<>>
    /\ cls = <<>>
    /\ builtNodes = <<>>
    /\ rawEdges = <<>>
    /\ doorIdx = 1
    /\ doors = <<>>
    /\ SimplIdle
    /\ ScaleIdle
    /\ ParseIdle
    /\ layer = SameLayer
    /\ tool \in {t \in SendToolMenu : Refers(t.path, wallPaths, doorPaths, dimsPath)}

\* no API key: send logs and returns
SendNoKey ==
    /\ pc = "send"
    /\ ~apiKey
    /\ pc' = "returned"
    /\ UNCHANGED <<distanceMemo, tool, layer, parseVars, scaleVars, simplVars, graphVars, doorVars, sendVars>>

\* findBoundingBox(dimsPath) and length
SendBoundingBox ==
    /\ pc = "send"
    /\ apiKey
    /\ \E dimsBoundingBox \in {findBoundingBox(dimsPath)} :
           length' = RMax(dimsBoundingBox.height, dimsBoundingBox.width)
    /\ pc' = "extract"
    /\ UNCHANGED <<distanceMemo, tool, layer, parseVars, scaleVars, simplVars, graphVars, doorVars, apiKey, dimsPath, dimensionData,
                   scaleCall, pixelData, finalJSON>>

\* await extractDimensionNumber: null without dimension strokes; otherwise
\* whatever the recognizer answers: nothing parsable, a text alone, or a
\* text with a number.
SendExtract ==
    /\ pc = "extract"
    /\ IF Len(dimsPath) = 0
       THEN dimensionData' = [kind |-> "null", dimension_value |-> NaN]
       ELSE \/ dimensionData' = [kind |-> "null", dimension_value |-> NaN]
            \/ dimensionData' = [kind |-> "text", dimension_value |-> NaN]
            \/ \E v \in {0, 12, 24} :
                  dimensionData' = [kind |-> "value", dimension_value |-> Rat(v)]
    /\ pc' = "build"
    /\ UNCHANGED <<distanceMemo, tool, layer, parseVars, scaleVars, simplVars, graphVars, doorVars, apiKey, dimsPath, length,
                   scaleCall, pixelData, finalJSON>>

\* the recognizer request rejects: the handler's catch logs the error
SendExtractFails ==
    /\ pc = "extract"
    /\ Len(dimsPath) > 0
    /\ pc' = "failed"
    /\ UNCHANGED <<distanceMemo, tool, layer, parseVars, scaleVars, simplVars, graphVars, doorVars, sendVars>>

\* wallGraph = createWallGraph(wallPaths)
SendBuild ==
    /\ pc = "build"
    /\ \E wallGraph \in {createWallGraph(wallPaths)} :
           /\ nodes' = wallGraph.nodes
           /\ edges' = wallGraph.edges
    /\ pc' = "doors"
    /\ UNCHANGED <<distanceMemo, tool, layer, parseVars, scaleVars, simplVars, wallPaths, pathIdx, edgeIdx, resolved, cls, builtNodes,
                   rawEdges, doorVars, sendVars>>

\* doorsData = findDoors(doorPaths, wallGraph)
SendFindDoors ==
    /\ pc = "doors"
    /\ doors' = findDoors(doorPaths, nodes, edges)
    /\ pixelData' = [nodes |-> nodes, doors |-> doors']
    /\ pc' = "scale"
    /\ UNCHANGED <<distanceMemo, tool, layer, parseVars, scaleVars, simplVars, graphVars, doorPaths, doorIdx, apiKey, dimsPath, length,
                   dimensionData, scaleCall, finalJSON>>

\* if (dimensionData && dimensionData.dimension_value): scale
SendScale ==
    /\ pc = "scale"
    /\ truthy(dimensionData)
    /\ \E scaled \in {scaleToRealWorld(nodes, edges, doors,
                                          dimensionData.dimension_value, length)} :
           /\ nodes' = scaled.wallGraph.nodes
           /\ edges' = scaled.wallGraph.edges
           /\ doors' = scaled.doors
           /\ scaleCall' = [called |-> TRUE,
                            dimensionValue |-> dimensionData.dimension_value,
                            boundingBoxLength |-> length,
                            scaleFactor |-> scaled.scaleFactor]
    /\ pc' = "emit"
    /\ UNCHANGED <<distanceMemo, tool, layer, parseVars, scaleVars, simplVars, wallPaths, pathIdx, edgeIdx, resolved, cls, builtNodes,
                   rawEdges, doorPaths, doorIdx, apiKey, dimsPath, length, dimensionData,
                   pixelData, finalJSON>>

\* the condition is falsy: the scaling step is skipped
SendSkipScale ==
    /\ pc = "scale"
    /\ ~truthy(dimensionData)
    /\ pc' = "emit"
    /\ UNCHANGED <<distanceMemo, tool, layer, parseVars, scaleVars, simplVars, graphVars, doorVars, sendVars>>

\* walls, finalJSON and the POST of finalJSON
SendEmit ==
    /\ pc = "emit"
    /\ finalJSON' = [walls |-> wallsOf(nodes, edges), doors |-> doors]
    /\ pc' = "posted"
    /\ UNCHANGED <<distanceMemo, tool, layer, parseVars, scaleVars, simplVars, graphVars, doorVars, apiKey, dimsPath, length,
                   dimensionData, scaleCall, pixelData>>

----------------------------------------------------------------------------
(* The handlers that run while send waits.  send holds the Path objects of *)
(* the layer in its three arrays and waits for extractDimensionNumber; the *)
(* tool handlers and the unmount hook run in the turns in between, on the  *)
(* same objects.  Without dimension strokes extractDimensionNumber returns *)
(* at once and no event is handled before send resumes.  After the filter  *)
(* send does not read the layer again: a stroke begun later (path = "new") *)
(* is in layer.added and in none of the arrays, and a stroke removed from  *)
(* the layer stays in the arrays.  MaxEvents bounds the events handled     *)
(* during the wait.                                                        *)

\* send waits for the recognizer and the canvas takes events
Listening ==
    /\ pc = "extract"
    /\ Len(dimsPath) > 0
    /\ tool.mounted
    /\ tool.events < MaxEvents

\* the points of the stroke behind the variable path
Drawn(ref) ==
    CASE ref = "wall" -> wallPaths[Len(wallPaths)].segments
      [] ref = "door" -> doorPaths[Len(doorPaths)].segments
      [] ref = "dims" -> dimsPath[Len(dimsPath)].segments
      [] ref = "new" -> layer.added[Len(layer.added)]

\* the stroke behind the variable path gets the points segs
setSegments(ref, segs) ==
    /\ wallPaths' = IF ref = "wall"
                    THEN [wallPaths EXCEPT ![Len(wallPaths)] = Path(segs)] ELSE wallPaths
    /\ doorPaths' = IF ref = "door"
                    THEN [doorPaths EXCEPT ![Len(doorPaths)] = Path(segs)] ELSE doorPaths
    /\ dimsPath' = IF ref = "dims"
                   THEN [dimsPath EXCEPT ![Len(dimsPath)] = Path(segs)] ELSE dimsPath
    /\ layer' = IF ref = "new"
                THEN [layer EXCEPT !.added[Len(layer.added)] = segs] ELSE layer

\* the strokes in the active layer
Items ==
    ({<<"wall", i>> : i \in 1..Len(wallPaths)}
        \cup {<<"door", i>> : i \in 1..Len(doorPaths)}
        \cup {<<"dims", i>> : i \in 1..Len(dimsPath)}
        \cup {<<"new", i>> : i \in 1..Len(layer.added)}) \ layer.removed

\* paper.project.hitTest(event.point, ...): no item, or a stroke of the
\* layer that lies within the tolerance of the point
hitTest == {<<"none", 0>>} \cup Items

\* if (hitResult && hitResult.item) hitResult.item.remove()
erase(hitResult) ==
    /\ layer' = IF hitResult[1] = "none" THEN layer
                ELSE [layer EXCEPT !.removed = @ \cup {hitResult}]
    /\ UNCHANGED <<wallPaths, doorPaths, dimsPath>>

\* tool.onMouseDown: a new path with the point of the event, or the eraser
onMouseDown ==
    /\ Listening
    /\ ~tool.pressed
    /\ IF tool.mode = "draw"
       THEN /\ \E point \in MouseGrid :
                  layer' = [layer EXCEPT !.added = Append(@, <<point>>)]
            /\ tool' = [tool EXCEPT !.pressed = TRUE, !.path = "new", !.events = @ + 1]
            /\ UNCHANGED <<wallPaths, doorPaths, dimsPath>>
       ELSE /\ \E hitResult \in hitTest : erase(hitResult)
            /\ tool' = [tool EXCEPT !.pressed = TRUE, !.events = @ + 1]
    /\ UNCHANGED <<pc, simplVars, pathIdx, nodes, edges, edgeIdx, resolved, cls, builtNodes,
                   rawEdges, doorIdx, doors, apiKey, length, dimensionData, scaleCall,
                   pixelData, finalJSON, scaleVars, parseVars, distanceMemo>>

\* tool.onMouseDrag: if (path) path.add(event.point), or the eraser
onMouseDrag ==
    /\ Listening
    /\ tool.pressed
    /\ IF tool.mode = "draw"
       THEN IF tool.path # "none"
            THEN \E point \in MouseGrid :
                    setSegments(tool.path, Append(Drawn(tool.path), point))
            ELSE UNCHANGED <<wallPaths, doorPaths, dimsPath, layer>>
       ELSE \E hitResult \in hitTest : erase(hitResult)
    /\ tool' = [tool EXCEPT !.events = @ + 1]
    /\ UNCHANGED <<pc, simplVars, pathIdx, nodes, edges, edgeIdx, resolved, cls, builtNodes,
                   rawEdges, doorIdx, doors, apiKey, length, dimensionData, scaleCall,
                   pixelData, finalJSON, scaleVars, parseVars, distanceMemo>>

\* tool.onMouseUp: if (mode.value === 'draw' && path) path.simplify(10)
onMouseUp ==
    /\ Listening
    /\ tool.pressed
    /\ IF tool.mode = "draw" /\ tool.path # "none"
       THEN \E segs \in simplify(Drawn(tool.path)) : setSegments(tool.path, segs)
       ELSE UNCHANGED <<wallPaths, doorPaths, dimsPath, layer>>
    /\ tool' = [tool EXCEPT !.pressed = FALSE, !.events = @ + 1]
    /\ UNCHANGED <<pc, simplVars, pathIdx, nodes, edges, edgeIdx, resolved, cls, builtNodes,
                   rawEdges, doorIdx, doors, apiKey, length, dimensionData, scaleCall,
                   pixelData, finalJSON, scaleVars, parseVars, distanceMemo>>

\* the toolbar buttons: @click="mode = 'draw'", @click="mode = 'erase'"
setMode ==
    /\ Listening
    /\ \E m \in {"draw", "erase"} :
          /\ m # tool.mode
          /\ tool' = [tool EXCEPT !.mode = m, !.events = @ + 1]
    /\ UNCHANGED <<pc, simplVars, graphVars, doorVars, sendVars, scaleVars, parseVars, layer,
                   distanceMemo>>

\* onBeforeUnmount: paper.project.clear() takes every stroke from the
\* layer; the canvas is gone and the tool gets no more events.
onBeforeUnmount ==
    /\ pc = "extract"
    /\ Len(dimsPath) > 0
    /\ tool.mounted
    /\ tool' = [tool EXCEPT !.mounted = FALSE]
    /\ layer' = [layer EXCEPT !.removed = @ \cup Items]
    /\ UNCHANGED <<pc, simplVars, graphVars, doorVars, sendVars, scaleVars, parseVars, distanceMemo>>

Next ==
    \/ SendNoKey
    \/ SendBoundingBox
    \/ SendExtract
    \/ SendExtractFails
    \/ SendBuild
    \/ SendFindDoors
    \/ SendScale
    \/ SendSkipScale
    \/ SendEmit
    \/ onMouseDown
    \/ onMouseDrag
    \/ onMouseUp
    \/ setMode
    \/ onBeforeUnmount

Spec == Init /\ [][Next]_vars

----------------------------------------------------------------------------
(* Properties of scaling in send                                           *)

\* every coordinate of the posted walls and doors
EmittedCoords ==
    UNION {{finalJSON.walls[k].start_point.x, finalJSON.walls[k].start_point.y,
            finalJSON.walls[k].end_point.x, finalJSON.walls[k].end_point.y}
              : k \in 1..Len(finalJSON.walls)}
      \cup UNION {{finalJSON.doors[k].start.x, finalJSON.doors[k].start.y,
                   finalJSON.doors[k].end.x, finalJSON.doors[k].end.y}
              : k \in 1..Len(finalJSON.doors)}

\* nodes and doors are the pixel-space ones with every coordinate times f
ScaledBy(f) ==
    /\ nodes = [i \in 1..Len(pixelData.nodes) |-> scalePoint(pixelData.nodes[i], f)]
    /\ Len(doors) = Len(pixelData.doors)
    /\ \A i \in 1..Len(doors) :
          /\ doors[i].start = scalePoint(pixelData.doors[i].start, f)
          /\ doors[i].end = scalePoint(pixelData.doors[i].end, f)

\* C1: a scaleToRealWorld call with boundingBoxLength > 0 returns
\* scaleFactor = dimensionValue / boundingBoxLength and multiplies every
\* node and door start/end coordinate by that factor.
C1_ScaleFactorIsValueOverLength ==
    (pc = "emit" /\ scaleCall.called /\ RLt(Rat(0), scaleCall.boundingBoxLength)) =>
        /\ scaleCall.scaleFactor
              = RDiv(scaleCall.dimensionValue, scaleCall.boundingBoxLength)
        /\ ScaledBy(RDiv(scaleCall.dimensionValue, scaleCall.boundingBoxLength))

\* C7: with a reference length of 0 pixels and a recognized dimension
\* value the submission skips scaling: nothing is divided by zero and the
\* posted coordinates are the finite pixel coordinates.
C7_ZeroLengthSkipsScaling ==
    (pc = "posted" /\ length = Rat(0) /\ dimensionData.kind = "value") =>
        /\ ~scaleCall.called
        /\ \A c \in EmittedCoords : IsFinite(c)
        /\ finalJSON = [walls |-> wallsOf(pixelData.nodes, edges),
                        doors |-> pixelData.doors]

\* C11: the scaling step leaves the edge list and every door's original
\* start/end as they were, and the graph nodes and doors it was given
\* still hold their pixel coordinates afterwards.
C11_ScalingKeepsEdgesAndOriginals ==
    [][(pc = "scale" /\ scaleCall'.called) =>
          /\ edges' = edges
          /\ Len(doors') = Len(doors)
          /\ \A i \in 1..Len(doors) : doors'[i].original = doors[i].original
          /\ pixelData' = [nodes |-> nodes, doors |-> doors]]_vars

C11_Witness ==
    /\ pc = "emit"
    /\ scaleCall.called
    /\ Len(edges) > 1
    /\ Len(doors) > 0
    /\ doors[1].start # pixelData.doors[1].start
    /\ doors[1].original = pixelData.doors[1].original
    /\ nodes # pixelData.nodes

\* The recognizer result carries no number: null, or a text alone.
NoDimensionValue == dimensionData.kind \in {"null", "text"}

\* C13: when the recognizer result is null (as it is without dimension
\* strokes) or has no dimension_value, send does not call scaleToRealWorld,
\* stays on the way to the POST (the catch is not entered), and posts the
\* pixel-space coordinates of the rectified graph and the snapped doors.
C13_NoValueSkipsScaling ==
    /\ (pc \in {"build", "doors", "scale", "emit", "posted"} /\ Len(dimsPath) = 0)
          => dimensionData.kind = "null"
    /\ NoDimensionValue =>
          /\ ~scaleCall.called
          /\ pc \in {"build", "doors", "scale", "emit", "posted"}
          /\ pc = "emit" => (nodes = pixelData.nodes /\ doors = pixelData.doors)
          /\ pc = "posted" =>
                finalJSON = [walls |-> wallsOf(pixelData.nodes, edges),
                             doors |-> pixelData.doors]

C13_Witness ==
    /\ pc = "posted"
    /\ dimensionData.kind = "text"
    /\ Len(dimsPath) > 0
    /\ Len(finalJSON.walls) > 0
    /\ Len(finalJSON.doors) > 0
    /\ finalJSON.doors[1].start # finalJSON.doors[1].original.start

\* 'wall_0', 'wall_1', ... in order
WallIds == <<"wall_0", "wall_1", "wall_2", "wall_3">>

\* C14: the posted walls array has one entry per edge of the final graph,
\* in edge order; entry k (from 0) has wall_id 'wall_k', the coordinates of
\* the edge's first node as start_point and of its second as end_point.
C14_OneWallPerEdge ==
    pc = "posted" =>
        /\ Len(finalJSON.walls) = Len(edges)
        /\ \A k \in 1..Len(edges) :
              /\ finalJSON.walls[k].wall_id = WallIds[k]
              /\ finalJSON.walls[k].start_point = nodes[edges[k][1] + 1]
              /\ finalJSON.walls[k].end_point = nodes[edges[k][2] + 1]

C14_Witness ==
    /\ pc = "posted"
    /\ Len(finalJSON.walls) = 2
    /\ finalJSON.walls[2].wall_id = "wall_1"
    /\ finalJSON.walls[2].start_point # finalJSON.walls[2].end_point
    /\ finalJSON.walls[1].start_point # finalJSON.walls[2].start_point
    /\ scaleCall.called

----------------------------------------------------------------------------
(* Further properties of createWallGraph                                   *)

\* a stroke that has a segment list of at least two points
Proper(path) == path.has /\ Len(path.segments) >= 2

\* C15: a wall stroke without a segment list, with no point or with one
\* point adds no node and no edge, and the build goes on: the returned
\* graph is the graph of the stroke list without such strokes.
C15_DegenerateStrokesSkipped ==
    /\ (pc = "merge" /\ pathIdx > 1 /\ ~Proper(wallPaths[pathIdx - 1])) =>
          [nodes |-> nodes, edges |-> edges]
              = [nodes |-> mergePhase(SubSeq(wallPaths, 1, pathIdx - 2), 1, EmptyGraph).nodes,
                 edges |-> mergePhase(SubSeq(wallPaths, 1, pathIdx - 2), 1, EmptyGraph).edges]
    /\ pc = "returned" =>
          [nodes |-> nodes, edges |-> edges] = createWallGraph(SelectSeq(wallPaths, Proper))

C15_Witness ==
    /\ pc = "returned"
    /\ Len(edges) > 0
    /\ \E i, j \in 1..Len(wallPaths) :
          /\ i < j
          /\ wallPaths[i].has /\ Len(wallPaths[i].segments) = 1
          /\ Proper(wallPaths[j])
          /\ \A k \in 1..Len(nodes) : DistSq(nodes[k], wallPaths[i].segments[1]) # Rat(0)

----------------------------------------------------------------------------
(* Further properties of findDoors                                         *)

\* the door strokes handled so far that have at least two points, in order
DoorStrokes == SelectSeq(SubSeq(doorPaths, 1, doorIdx - 1), Proper)

\* C16: findDoors emits one door per door stroke of at least two points,
\* in stroke order, and none for the others; a door's original pair is
\* the stroke's first and last raw point whatever lies between them, and
\* its start and end are the snaps of those two points.
C16_OneDoorPerStroke ==
    pc \in {"doors", "doorsReturned"} =>
        /\ Len(doors) = Len(DoorStrokes)
        /\ \A i \in 1..Len(doors) :
              LET seg == DoorStrokes[i].segments
              IN  /\ doors[i].original = [start |-> seg[1], end |-> seg[Len(seg)]]
                  /\ doors[i].start = snapToNearestEdge(seg[1], nodes, edges)
                  /\ doors[i].end = snapToNearestEdge(seg[Len(seg)], nodes, edges)

\* Two doors from two strokes, in stroke order: the first from a stroke of
\* three points whose interior point is not its last one, the second from
\* a stroke with other ends.
C16_Witness ==
    /\ pc = "doorsReturned"
    /\ Len(doorPaths) = 2
    /\ Len(doors) = 2
    /\ Len(doorPaths[1].segments) = 3
    /\ Len(doorPaths[2].segments) = 2
    /\ doorPaths[1].segments[2] # doorPaths[1].segments[3]
    /\ doors[1].original.end = doorPaths[1].segments[3]
    /\ doors[2].original.start = doorPaths[2].segments[1]
    /\ doors[1].original # doors[2].original
    /\ doors[1].start # doors[2].start
    /\ doors[1].end # doors[1].original.end

----------------------------------------------------------------------------
(* Further properties of removeColinearPoints                              *)

\* The path bends at b between a and c: both vectors from b are non-zero
\* and their angle is more than 10 degrees away from 180.
Bends(a, b, c) ==
    LET ux == RSub(a.x, b.x)
        uy == RSub(a.y, b.y)
        wx == RSub(c.x, b.x)
        wy == RSub(c.y, b.y)
        dot == RAdd(RMul(ux, wx), RMul(uy, wy))
        cross == RSub(RMul(ux, wy), RMul(uy, wx))
    IN  /\ a # b
        /\ c # b
        /\ ~(RLt(dot, Rat(0)) /\ RLe(RAbs(cross), RMul(TanTol, RNeg(dot))))

\* the indices retained by the pass, as a set
KeptSet == {KeptIdx(points)[k] : k \in 1..Len(KeptIdx(points))}

\* the last retained index before i
LastKeptBefore(i) == CHOOSE k \in KeptSet : k < i /\ \A m \in KeptSet : m < i => m <= k

\* C17: an interior point is kept exactly when the path bends at it
\* between the last point retained so far and the next raw point; a
\* zero-length vector on either side drops it.  (0,0),(5,1),(10,0) stays
\* whole and (0,0),(5,0),(10,0) loses its middle point.
C17_KeptIffBends ==
    pc = "simplified" =>
        /\ cleaned = [k \in 1..Len(KeptIdx(points)) |-> points[KeptIdx(points)[k]]]
        /\ \A i \in 2..(Len(points) - 1) :
              (i \in KeptSet) <=> Bends(points[LastKeptBefore(i)], points[i], points[i + 1])
        /\ points = <<Pt(0, 0), Pt(5, 1), Pt(10, 0)>> => cleaned = points
        /\ points = <<Pt(0, 0), Pt(5, 0), Pt(10, 0)>> => cleaned = <<Pt(0, 0), Pt(10, 0)>>

\* A point is judged against a retained point that is not its raw
\* predecessor, and a repeated point is dropped.
C17_Witness ==
    /\ pc = "simplified"
    /\ Len(points) = 4
    /\ Len(cleaned) = 3
    /\ cleaned[2] = points[3]
    /\ points[2] = points[1]
    /\ Bends(points[1], points[3], points[4])

\* the raw edges incident to node index n (0-based)
EdgesAt(n) == {k \in 1..Len(cls) : n \in {PassEdges[k][1], PassEdges[k][2]}}

\* C18: a rectification step moves only the two end nodes of its edge: a
\* near-horizontal edge gets the average of the two current y values on
\* both ends and keeps its x values, a near-vertical edge the average of
\* the two current x values and keeps its y values, any other edge
\* changes nothing; (0,0)-(100,3) ends with y = 1.5 on both ends.  A node
\* whose edges were all classified as neither keeps its built coordinates.
C18_StepMovesOnlyItsEdge ==
    [][/\ (pc = "rectify" /\ edgeIdx' = edgeIdx + 1) =>
             LET i == edges[edgeIdx][1] + 1
                 j == edges[edgeIdx][2] + 1
                 c == cls'[Len(cls')]
             IN  /\ Len(nodes') = Len(nodes)
                 /\ \A k \in 1..Len(nodes) : k \notin {i, j} => nodes'[k] = nodes[k]
                 /\ c = "horizontal" =>
                       /\ nodes'[i].y = RDiv(RAdd(nodes[i].y, nodes[j].y), Rat(2))
                       /\ nodes'[j].y = nodes'[i].y
                       /\ nodes'[i].x = nodes[i].x /\ nodes'[j].x = nodes[j].x
                 /\ c = "vertical" =>
                       /\ nodes'[i].x = RDiv(RAdd(nodes[i].x, nodes[j].x), Rat(2))
                       /\ nodes'[j].x = nodes'[i].x
                       /\ nodes'[i].y = nodes[i].y /\ nodes'[j].y = nodes[j].y
                 /\ c = "none" => nodes' = nodes
       /\ rectifyEdge(<<Pt(0, 0), Pt(100, 3)>>, <<0, 1>>)
             = <<[x |-> Rat(0), y |-> <<3, 2>>], [x |-> Rat(100), y |-> <<3, 2>>]>>
       /\ pc' = "returned" =>
             \A n \in 0..(Len(nodes) - 1) :
                 (\A k \in EdgesAt(n) : cls[k] = "none") => NodeAt(nodes, n) = NodeAt(builtNodes, n)
      ]_vars

C18_Witness ==
    /\ pc = "returned"
    /\ \E k, m \in 1..Len(cls) :
          /\ cls[k] = "horizontal"
          /\ cls[m] = "vertical"
          /\ NodeAt(nodes, rawEdges[k][1]).y # NodeAt(builtNodes, rawEdges[k][1]).y
          /\ NodeAt(nodes, rawEdges[m][1]).x # NodeAt(builtNodes, rawEdges[m][1]).x
    /\ \E n \in 0..(Len(nodes) - 1) :
          /\ EdgesAt(n) # {}
          /\ \A k \in EdgesAt(n) : cls[k] = "none"

\* the number of nodes the graph had when resolved[t] was resolved: nodes
\* are only ever appended, so one more than the highest index given before
NodesBefore(t) ==
    IF t = 1 THEN 0
    ELSE 1 + (CHOOSE i \in {resolved[u].idx : u \in 1..(t - 1)} :
                 \A u \in 1..(t - 1) : resolved[u].idx <= i)

\* resolved[t] got the lowest-index node closer than mergeDistance, or,
\* without such a node, became the new last node
ResolvedRight(t) ==
    LET p == resolved[t].p
        near == {k \in 0..(NodesBefore(t) - 1) : Close(NodeAt(nodes, k), p)}
    IN  IF near # {}
        THEN \A k \in near : resolved[t].idx <= k /\ resolved[t].idx \in near
        ELSE resolved[t].idx = NodesBefore(t) /\ NodeAt(nodes, resolved[t].idx) = p

\* C19: in the merge phase an endpoint takes the lowest-index node that
\* is strictly closer than mergeDistance to it (a node at exactly
\* mergeDistance does not count), or else is appended as the last node;
\* a step of the phase leaves every existing node at its index with its
\* coordinates.
C19_LowestCloseNodeOrAppend ==
    /\ [](pc = "merge" => \A t \in 1..Len(resolved) : ResolvedRight(t))
    /\ [][pc' = "merge" =>
             /\ Len(nodes) <= Len(nodes')
             /\ SubSeq(nodes', 1, Len(nodes)) = nodes]_vars

\* Some endpoint lay at exactly mergeDistance from an existing node and
\* became a node of its own; another one merged into a node that was not
\* the last.
C19_Witness ==
    /\ MergeDone
    /\ \E t \in 1..Len(resolved) :
          /\ resolved[t].idx = NodesBefore(t)
          /\ \E k \in 0..(NodesBefore(t) - 1) :
                DistSq(NodeAt(nodes, k), resolved[t].p) = Rat(mergeDistance * mergeDistance)
    /\ \E t \in 1..Len(resolved) :
          /\ resolved[t].idx < NodesBefore(t) - 1
          /\ resolved[t].p # NodeAt(nodes, resolved[t].idx)

\* the unordered node pair of an edge
UPair(e) == {e[1], e[2]}

\* the first and the last raw edge with the unordered pair P
FirstOcc(P) == CHOOSE k \in 1..Len(rawEdges) :
                   UPair(rawEdges[k]) = P /\ \A m \in 1..(k - 1) : UPair(rawEdges[m]) # P

LastOcc(P) == CHOOSE k \in 1..Len(rawEdges) :
                  UPair(rawEdges[k]) = P /\ \A m \in (k + 1)..Len(rawEdges) : UPair(rawEdges[m]) # P

\* C20: deduplication keeps exactly one edge for each unordered node pair
\* of the raw edges and loses none; the kept edges stand in the order in
\* which their pairs first occurred, each with the orientation of the
\* last raw edge of its pair.
C20_OneEdgePerPairFirstPlaceLastValue ==
    pc = "returned" =>
        /\ {UPair(edges[k]) : k \in 1..Len(edges)}
              = {UPair(rawEdges[k]) : k \in 1..Len(rawEdges)}
        /\ \A k, m \in 1..Len(edges) :
              k < m => /\ UPair(edges[k]) # UPair(edges[m])
                       /\ FirstOcc(UPair(edges[k])) < FirstOcc(UPair(edges[m]))
        /\ \A k \in 1..Len(edges) : edges[k] = rawEdges[LastOcc(UPair(edges[k]))]

\* A pair occurs first in one direction and last in the other, ahead of
\* another pair: the kept edge has the later direction and the first place.
C20_Witness ==
    /\ pc = "returned"
    /\ Len(edges) = 2
    /\ Len(rawEdges) = 3
    /\ UPair(rawEdges[1]) = UPair(rawEdges[2])
    /\ rawEdges[1] # rawEdges[2]
    /\ edges[1] = rawEdges[2]

(***************************************************************************)
(* scaleToRealWorld on doubles                                             *)
(***************************************************************************)
\* a pixel point with integer coordinates
Pt64(x, y) == [x |-> F64OfInt(x), y |-> F64OfInt(y)]

scalePoint64(p, scaleFactor) == [x |-> F64Mul(p.x, scaleFactor), y |-> F64Mul(p.y, scaleFactor)]

\* Mutant: a door's ends are scaled from the stroke's ends, not from the
\* snapped ends.
scaleCoordinates64_fromOriginal(ns, ds, scaleFactor) ==
    [nodes |-> [i \in 1..Len(ns) |-> scalePoint64(ns[i], scaleFactor)],
     doors |-> [i \in 1..Len(ds) |->
                   [start |-> scalePoint64(ds[i].original.start, scaleFactor),
                    end |-> scalePoint64(ds[i].original.end, scaleFactor),
                    original |-> ds[i].original]],
     scaleFactor |-> scaleFactor]

\* the two maps of scaleToRealWorld and its result, on doubles
scaleCoordinates64(ns, ds, scaleFactor) ==
    [nodes |-> [i \in 1..Len(ns) |-> scalePoint64(ns[i], scaleFactor)],
     doors |-> [i \in 1..Len(ds) |->
                   [start |-> scalePoint64(ds[i].start, scaleFactor),
                    end |-> scalePoint64(ds[i].end, scaleFactor),
                    original |-> ds[i].original]],
     scaleFactor |-> scaleFactor]

\* const scaleFactor = 12 / boundingBoxLength, for a whole number of
\* pixels; Infinity for the length 0
scaleFactor64(boundingBoxLength) == F64Div(F64OfInt(12), F64OfInt(boundingBoxLength))

\* scaleToRealWorld(wallGraph, doors, dimensionValue, boundingBoxLength) on
\* doubles; the edges and dimensionValue take no part in the coordinates
scaleToRealWorld64(ns, ds, boundingBoxLength) ==
    Val({scaleCoordinates64(ns, ds, f) : f \in {scaleFactor64(boundingBoxLength)}})

(***************************************************************************)
(* SpecScale: scaleToRealWorld as a function of doubles.  A graph and a    *)
(* door list are scaled for a first length and the result for a second     *)
(* one; the same input is scaled once by the product of the two scale      *)
(* factors, and once by the call whose scale factor is that product in     *)
(* real numbers, boundingBoxLength = L1 * L2 / 12.  MaxScaled bounds the   *)
(* number of nodes and the number of doors.                                *)
(***************************************************************************)
MaxScaled == 1

Scaled(out) == [done |-> TRUE, out |-> out]

\* The lengths give 12 / 12 = 1, 12 / 96 = 0.125, 12 / 120 = 0.1 and
\* 12 / 240 = 0.05; the length 0 is that of a dimension stroke that is a
\* single point and gives 12 / 0 = Infinity.
InitScale ==
    LET ScaleGrid == {Pt64(0, 0), Pt64(50, 3), Pt64(100, 30), Pt64(-10, 7)}
        ScaleDoorMenu ==
            {[start |-> Pt64(50, 0), end |-> Pt64(100, 0),
              original |-> [start |-> Pt64(50, 3), end |-> Pt64(100, 30)]],
             [start |-> Pt64(-10, 7), end |-> Pt64(7, 30),
              original |-> [start |-> Pt64(-10, 7), end |-> Pt64(7, 30)]]}
        ScaleLengths == {0, 12, 96, 120, 240}
    IN
    /\ pc = "scaling"
    /\ scaleIn \in [nodes : SeqsUpTo(ScaleGrid, MaxScaled),
                    doors : SeqsUpTo(ScaleDoorMenu, MaxScaled),
                    lengths : ScaleLengths \X ScaleLengths]
    /\ scaleOut = [s |-> NotScaled, st |-> NotScaled, product |-> NotScaled, length |-> NotScaled]
    /\ SimplIdle
    /\ GraphIdle
    /\ DoorIdle
    /\ SendIdle
    /\ ParseIdle
    /\ ToolIdle
    /\ distanceMemo = <<>>

\* the input scaled for the first length
ScaleFirst ==
    /\ pc = "scaling"
    /\ ~scaleOut.s.done
    /\ scaleOut' = [scaleOut EXCEPT !.s =
           Scaled(scaleToRealWorld64(scaleIn.nodes, scaleIn.doors, scaleIn.lengths[1]))]
    /\ UNCHANGED <<distanceMemo, tool, layer, parseVars, pc, scaleIn, simplVars, graphVars, doorVars, sendVars>>

\* that result scaled for the second length
ScaleSecond ==
    /\ pc = "scaling"
    /\ scaleOut.s.done
    /\ ~scaleOut.st.done
    /\ scaleOut' = [scaleOut EXCEPT !.st =
           Scaled(scaleToRealWorld64(scaleOut.s.out.nodes, scaleOut.s.out.doors, scaleIn.lengths[2]))]
    /\ UNCHANGED <<distanceMemo, tool, layer, parseVars, pc, scaleIn, simplVars, graphVars, doorVars, sendVars>>

\* the input scaled once by the product of the two scale factors
ScaleByProduct ==
    /\ pc = "scaling"
    /\ ~scaleOut.product.done
    /\ \E f \in {F64Mul(scaleFactor64(scaleIn.lengths[1]), scaleFactor64(scaleIn.lengths[2]))} :
           scaleOut' = [scaleOut EXCEPT !.product =
               Scaled(scaleCoordinates64(scaleIn.nodes, scaleIn.doors, f))]
    /\ UNCHANGED <<distanceMemo, tool, layer, parseVars, pc, scaleIn, simplVars, graphVars, doorVars, sendVars>>

\* the input scaled once for the length L1 * L2 / 12
ScaleByLength ==
    /\ pc = "scaling"
    /\ ~scaleOut.length.done
    /\ (scaleIn.lengths[1] * scaleIn.lengths[2]) % 12 = 0
    /\ scaleOut' = [scaleOut EXCEPT !.length =
           Scaled(scaleToRealWorld64(scaleIn.nodes, scaleIn.doors,
                                     (scaleIn.lengths[1] * scaleIn.lengths[2]) \div 12))]
    /\ UNCHANGED <<distanceMemo, tool, layer, parseVars, pc, scaleIn, simplVars, graphVars, doorVars, sendVars>>

NextScale == ScaleFirst \/ ScaleSecond \/ ScaleByProduct \/ ScaleByLength

SpecScale == InitScale /\ [][NextScale]_vars

\* the next double away from zero
F64Succ(a) ==
    Val({ IF BitAt(q, 53) = 1
          THEN [neg |-> a.neg, m |-> MantOne, e |-> a.e + 1]
          ELSE [neg |-> a.neg, m |-> SubSeq(q, 1, MantLimbs), e |-> a.e]
          : q \in {Carry([k \in 1..MantLimbs |-> IF k = 1 THEN a.m[1] + 1 ELSE a.m[k]], 1, 0)} })

RECURSIVE F64Reaches(_, _, _)
\* b is a or one of the k doubles that follow a away from zero
F64Reaches(a, b, k) == a = b \/ (k > 0 /\ F64Reaches(F64Succ(a), b, k - 1))

\* a and b are at most k doubles apart; a zero, an Infinity or NaN is
\* near itself only
F64Near(a, b, k) ==
    IF BigIsZero(a.m) \/ BigIsZero(b.m) \/ a.e = F64Infinity.e \/ b.e = F64Infinity.e
    THEN a = b
    ELSE F64Reaches(a, b, k) \/ F64Reaches(b, a, k)

PointNear(p, q, k) == F64Near(p.x, q.x, k) /\ F64Near(p.y, q.y, k)

\* the node and door start/end coordinates of o1 and o2 are at most k
\* doubles apart (k = 0: they are equal)
CoordsNear(o1, o2, k) ==
    /\ Len(o1.nodes) = Len(o2.nodes)
    /\ Len(o1.doors) = Len(o2.doors)
    /\ \A i \in 1..Len(o1.nodes) : PointNear(o1.nodes[i], o2.nodes[i], k)
    /\ \A i \in 1..Len(o1.doors) :
          /\ PointNear(o1.doors[i].start, o2.doors[i].start, k)
          /\ PointNear(o1.doors[i].end, o2.doors[i].end, k)

SameCoords(o1, o2) == CoordsNear(o1, o2, 0)

\* one of the two scale factors is a power of two
SomeFactorPowerOfTwo ==
    \/ F64IsPowerOfTwo(scaleOut.s.out.scaleFactor)
    \/ F64IsPowerOfTwo(scaleOut.st.out.scaleFactor)

\* one of the two scale factors is Infinity (a reference length of 0)
SomeFactorInfinite ==
    \/ scaleOut.s.out.scaleFactor = F64Infinity
    \/ scaleOut.st.out.scaleFactor = F64Infinity

\* C12: scaling with factor 1 returns the input coordinates.  Scaling with
\* s and then with t gives the coordinates of scaling once with s * t
\* exactly when s or t is a power of two, and when s or t is Infinity
\* (every coordinate is then Infinity, -Infinity or NaN, the same value on
\* both sides); for other factors the two agree up to the rounding of the
\* products: at most 4 doubles apart for the factor s * t, at most 6 for
\* the call whose length makes the factor s * t.
C12_LinearUpToRounding ==
    /\ (scaleOut.s.done /\ scaleOut.s.out.scaleFactor = F64One)
          => SameCoords(scaleOut.s.out, scaleIn)
    /\ (scaleOut.st.done /\ scaleOut.st.out.scaleFactor = F64One)
          => SameCoords(scaleOut.st.out, scaleOut.s.out)
    /\ (scaleOut.st.done /\ scaleOut.product.done)
          => /\ (SomeFactorPowerOfTwo \/ SomeFactorInfinite)
                    => SameCoords(scaleOut.st.out, scaleOut.product.out)
             /\ CoordsNear(scaleOut.st.out, scaleOut.product.out, 4)
    /\ (scaleOut.st.done /\ scaleOut.length.done)
          => /\ (SomeFactorPowerOfTwo \/ SomeFactorInfinite)
                    => SameCoords(scaleOut.st.out, scaleOut.length.out)
             /\ CoordsNear(scaleOut.st.out, scaleOut.length.out, 6)

\* Scaled by 0.125 and then by 0.1, and once by their product: the same
\* coordinates, none of them the input's.
C12_Witness ==
    /\ scaleOut.st.done
    /\ scaleOut.product.done
    /\ scaleOut.length.done
    /\ scaleIn.lengths = <<96, 120>>
    /\ scaleIn.nodes = <<Pt64(50, 3)>>
    /\ Len(scaleIn.doors) = 1
    /\ SameCoords(scaleOut.st.out, scaleOut.product.out)
    /\ SameCoords(scaleOut.st.out, scaleOut.length.out)
    /\ scaleOut.st.out.nodes[1].x # scaleIn.nodes[1].x
    /\ scaleOut.st.out.nodes[1].x # scaleOut.s.out.nodes[1].x

\* The statement as the specification has it, in either reading of
\* "scaling once with s * t": the coordinates after s and then t are those
\* of one scaling by the product of the factors, or those of the one call
\* whose factor is the product.
C12_ExactLinearity ==
    (scaleOut.st.done /\ scaleOut.product.done /\ scaleOut.length.done)
        => \/ SameCoords(scaleOut.st.out, scaleOut.product.out)
           \/ SameCoords(scaleOut.st.out, scaleOut.length.out)

\* C23: while the merge phase runs and when it ends, before rectification
\* moves any node, every two distinct nodes are at least mergeDistance
\* apart and both indices of every edge are indices of nodes.
C23_NodesApartEdgesValid ==
    pc = "merge" =>
        /\ \A i, j \in 1..Len(nodes) :
              i # j => RLe(Rat(mergeDistance * mergeDistance), DistSq(nodes[i], nodes[j]))
        /\ \A k \in 1..Len(edges) :
              /\ edges[k][1] \in 0..(Len(nodes) - 1)
              /\ edges[k][2] \in 0..(Len(nodes) - 1)

\* The phase has ended with three nodes or more, two of them exactly
\* mergeDistance apart, after an endpoint merged into a node that is not
\* at its own position.
C23_Witness ==
    /\ MergeDone
    /\ Len(nodes) >= 3
    /\ Len(edges) >= 2
    /\ \E i, j \in 1..Len(nodes) :
          DistSq(nodes[i], nodes[j]) = Rat(mergeDistance * mergeDistance)
    /\ \E t \in 1..Len(resolved) : resolved[t].p # NodeAt(nodes, resolved[t].idx)

(***************************************************************************)
(* SpecParse: parseArchitecturalSketch of svgParser.js.  The three parsers *)
(* are modelled by what their code does with the response of the API       *)
(* call: the call rejects, the response has no content, its text is not    *)
(* JSON, the text is the JSON null, or it is an object in which the        *)
(* wanted property is present or missing.  A step is one turn of the       *)
(* function: from its call, or from the settling of the promise it awaits, *)
(* to its next await or its return.  Under SpecParseFair every awaited     *)
(* promise settles.                                                        *)
(***************************************************************************)

\* v || [] for a property that is an array when it is there
orEmpty(o) == IF o.has THEN o.val ELSE <<>>

\* what client.beta.messages.create gives a parser whose property takes
\* the arrays of A
Responses(A) ==
    {[kind |-> k, data |-> Missing]
        : k \in {"rejected", "noContent", "notJson", "null", "object"}}
        \cup {[kind |-> "object", data |-> Some(a)] : a \in A}

Fulfilled(v) == [ok |-> TRUE, value |-> v]

\* parseWallsOnly: resolves to the parsed object, here its walls property
parseWallsOnly(response) ==
    IF response.kind = "object" THEN Fulfilled(response.data)
    ELSE [ok |-> FALSE, value |-> Missing]

\* parseDoorsOnly: resolves to parsedData.doors || []
parseDoorsOnly(response) ==
    IF response.kind = "object" THEN Fulfilled(orEmpty(response.data))
    ELSE [ok |-> FALSE, value |-> <<>>]

\* parseRoomsFromCanvas: resolves to parsedData.text_labels || []
parseRoomsFromCanvas(response) ==
    IF response.kind = "object" THEN Fulfilled(orEmpty(response.data))
    ELSE [ok |-> FALSE, value |-> <<>>]

\* Mutant: the provided graph data is never used.
usesGraphData_never(options) == FALSE

\* options.useGraphData && options.graphData
usesGraphData(options) == options.useGraphData /\ options.graphData.given

InitParse ==
    /\ pc = "parse"
    /\ parseIn \in [options :
                        [useGraphData : BOOLEAN,
                         graphData : {NoGraphData}
                             \cup {[given |-> TRUE, walls |-> w, doors |-> d] :
                                      w \in {Missing, Some(<<"wall_0">>)},
                                      d \in {Missing, Some(<<"door_0">>)}}],
                    canvas : BOOLEAN]
    /\ parseSt = [walls |-> <<>>, doors |-> <<>>, rooms |-> <<>>,
                  called |-> <<>>, failed |-> {}, result |-> NoResult]
    /\ SimplIdle
    /\ GraphIdle
    /\ DoorIdle
    /\ SendIdle
    /\ ScaleIdle
    /\ ToolIdle
    /\ distanceMemo = <<>>

\* const result = {walls, doors, rooms}; return result
returned(st) ==
    [st EXCEPT !.result = [resolved |-> TRUE, walls |-> st.walls,
                           doors |-> st.doors, rooms |-> st.rooms]]

\* What the function does, in the turn in which walls and doors are set,
\* from "if (canvas)" on: parseRoomsFromCanvas is called and runs up to its
\* first await (canvas.toBlob is pending), or the result is returned.
\* The value is the state of the function and the place where it waits.
fromCanvasTest(st, canvas) ==
    IF canvas
    THEN [st |-> [st EXCEPT !.called = Append(@, "rooms")], at |-> "await_blob"]
    ELSE [st |-> returned(st), at |-> "parsed"]

\* catch (e) of the rooms parser, then the return
roomsFailed(st) == returned([st EXCEPT !.failed = @ \cup {"rooms"}])

\* The call with options.useGraphData && options.graphData: walls and doors
\* come from options.graphData, and the function goes on to the canvas test
\* in the same turn.
ParseFromGraphData ==
    /\ pc = "parse"
    /\ usesGraphData(parseIn.options)
    /\ \E next \in {fromCanvasTest(
                       [parseSt EXCEPT !.walls = orEmpty(parseIn.options.graphData.walls),
                                       !.doors = orEmpty(parseIn.options.graphData.doors)],
                       parseIn.canvas)} :
          /\ parseSt' = next.st
          /\ pc' = next.at
    /\ UNCHANGED <<distanceMemo, tool, layer, parseIn, simplVars, graphVars, doorVars, sendVars, scaleVars>>

\* The call without graph data: parseWallsOnly is called and the function
\* waits at "await parseWallsOnly(...)".
ParseCallWalls ==
    /\ pc = "parse"
    /\ ~usesGraphData(parseIn.options)
    /\ parseSt' = [parseSt EXCEPT !.called = Append(@, "walls")]
    /\ pc' = "await_walls"
    /\ UNCHANGED <<distanceMemo, tool, layer, parseIn, simplVars, graphVars, doorVars, sendVars, scaleVars>>

\* parseWallsOnly has settled: walls = wallsData.walls || [], or the catch;
\* in the same turn parseDoorsOnly is called and the function waits at
\* "await parseDoorsOnly(...)".
ParseWalls ==
    /\ pc = "await_walls"
    /\ \E response \in Responses({<<>>, <<"wall_1">>}) :
          \E wallsData \in {parseWallsOnly(response)} :
              parseSt' = [parseSt EXCEPT
                  !.walls = IF wallsData.ok THEN orEmpty(wallsData.value) ELSE @,
                  !.failed = IF wallsData.ok THEN @ ELSE @ \cup {"walls"},
                  !.called = Append(@, "doors")]
    /\ pc' = "await_doors"
    /\ UNCHANGED <<distanceMemo, tool, layer, parseIn, simplVars, graphVars, doorVars, sendVars, scaleVars>>

\* parseDoorsOnly has settled: doors is its value, or the catch; in the same
\* turn the function goes on to the canvas test.
ParseDoors ==
    /\ pc = "await_doors"
    /\ \E response \in Responses({<<>>, <<"door_1">>}) :
          \E settled \in {parseDoorsOnly(response)} :
              \E next \in {fromCanvasTest(
                              [parseSt EXCEPT
                                  !.doors = IF settled.ok THEN settled.value ELSE @,
                                  !.failed = IF settled.ok THEN @ ELSE @ \cup {"doors"}],
                              parseIn.canvas)} :
                  /\ parseSt' = next.st
                  /\ pc' = next.at
    /\ UNCHANGED <<distanceMemo, tool, layer, parseIn, simplVars, graphVars, doorVars, sendVars, scaleVars>>

\* canvasToPngBlob has settled: with a blob parseRoomsFromCanvas goes on to
\* "await blobToBase64(blob)"; without one it rejects, which the catch of
\* parseArchitecturalSketch takes, and the result is returned.
ParseRoomsBlob ==
    /\ pc = "await_blob"
    /\ \E blob \in BOOLEAN :
          IF blob
          THEN /\ pc' = "await_base64"
               /\ UNCHANGED parseSt
          ELSE /\ pc' = "parsed"
               /\ parseSt' = roomsFailed(parseSt)
    /\ UNCHANGED <<distanceMemo, tool, layer, parseIn, simplVars, graphVars, doorVars, sendVars, scaleVars>>

\* blobToBase64 has settled: reader.onloadend resolves and the API call of
\* parseRoomsFromCanvas is made; reader.onerror rejects.
ParseRoomsBase64 ==
    /\ pc = "await_base64"
    /\ \E loaded \in BOOLEAN :
          IF loaded
          THEN /\ pc' = "await_rooms"
               /\ UNCHANGED parseSt
          ELSE /\ pc' = "parsed"
               /\ parseSt' = roomsFailed(parseSt)
    /\ UNCHANGED <<distanceMemo, tool, layer, parseIn, simplVars, graphVars, doorVars, sendVars, scaleVars>>

\* the API call of parseRoomsFromCanvas has settled: rooms is the value of
\* the parser, or the catch; the result is returned in the same turn.
ParseRooms ==
    /\ pc = "await_rooms"
    /\ \E response \in Responses({<<>>, <<"Kitchen">>}) :
          \E settled \in {parseRoomsFromCanvas(response)} :
              parseSt' = returned([parseSt EXCEPT
                  !.rooms = IF settled.ok THEN settled.value ELSE @,
                  !.failed = IF settled.ok THEN @ ELSE @ \cup {"rooms"}])
    /\ pc' = "parsed"
    /\ UNCHANGED <<distanceMemo, tool, layer, parseIn, simplVars, graphVars, doorVars, sendVars, scaleVars>>

NextParse ==
    \/ ParseFromGraphData
    \/ ParseCallWalls
    \/ ParseWalls
    \/ ParseDoors
    \/ ParseRoomsBlob
    \/ ParseRoomsBase64
    \/ ParseRooms

SpecParse == InitParse /\ [][NextParse]_vars

\* every awaited call settles and the function runs on
SpecParseFair == SpecParse /\ WF_vars(NextParse)

\* the calls made, as a set
CalledSet == {parseSt.called[k] : k \in 1..Len(parseSt.called)}

GraphDataTaken == parseIn.options.useGraphData /\ parseIn.options.graphData.given

\* what has resolved is the object of the three arrays; a parser that
\* failed left its array empty
ResolvedShape ==
    pc = "parsed" =>
        /\ parseSt.result = [resolved |-> TRUE, walls |-> parseSt.walls,
                             doors |-> parseSt.doors, rooms |-> parseSt.rooms]
        /\ "walls" \in parseSt.failed => parseSt.result.walls = <<>>
        /\ "doors" \in parseSt.failed => parseSt.result.doors = <<>>
        /\ "rooms" \in parseSt.failed => parseSt.result.rooms = <<>>

\* no failure stops a later parser
LaterParsersRun ==
    pc = "parsed" =>
        /\ ~GraphDataTaken => SubSeq(parseSt.called, 1, 2) = <<"walls", "doors">>
        /\ parseIn.canvas => parseSt.called[Len(parseSt.called)] = "rooms"

\* with the graph data the wall and door parsers are never called
GraphDataUsed ==
    GraphDataTaken =>
        /\ "walls" \notin CalledSet
        /\ "doors" \notin CalledSet
        /\ pc # "parse" =>
              /\ parseSt.walls = (IF parseIn.options.graphData.walls.has
                                  THEN parseIn.options.graphData.walls.val ELSE <<>>)
              /\ parseSt.doors = (IF parseIn.options.graphData.doors.has
                                  THEN parseIn.options.graphData.doors.val ELSE <<>>)

\* C22: parseArchitecturalSketch always resolves to an object {walls,
\* doors, rooms}; a parser's failure is caught, leaves its field an empty
\* array and does not keep the later parsers from running; with
\* options.useGraphData and options.graphData the walls and doors are those
\* of graphData and the wall and door parsers are never called.
C22_AlwaysResolvesFailuresCaught ==
    /\ [](ResolvedShape /\ LaterParsersRun /\ GraphDataUsed)
    /\ <>(pc = "parsed")

\* Resolved after the wall and room parsers failed and the door parser, run
\* between them, found a door.
C22_Witness ==
    /\ pc = "parsed"
    /\ parseSt.failed = {"walls", "rooms"}
    /\ parseSt.called = <<"walls", "doors", "rooms">>
    /\ parseSt.result = [resolved |-> TRUE, walls |-> <<>>, doors |-> <<"door_1">>, rooms |-> <<>>]

----------------------------------------------------------------------------
(* The posted doors against the posted walls                               *)

\* p lies on the segment of the posted wall w.  A coordinate that is not
\* finite is posted as null (JSON.stringify) and is on no segment.
OnWall(p, w) ==
    LET a == w.start_point
        b == w.end_point
    IN  /\ \A c \in {p.x, p.y, a.x, a.y, b.x, b.y} : IsFinite(c)
        /\ RSub(RMul(RSub(b.x, a.x), RSub(p.y, a.y)),
                RMul(RSub(b.y, a.y), RSub(p.x, a.x))) = Rat(0)
        /\ RLe(RMin(a.x, b.x), p.x) /\ RLe(p.x, RMax(a.x, b.x))
        /\ RLe(RMin(a.y, b.y), p.y) /\ RLe(p.y, RMax(a.y, b.y))

\* the graph the doors were snapped against has an edge of two positions
SomeProperEdge ==
    \E k \in 1..Len(edges) :
        NodeAt(pixelData.nodes, edges[k][1]) # NodeAt(pixelData.nodes, edges[k][2])

DoorsOnWalls ==
    \A i \in 1..Len(finalJSON.doors) :
        /\ \E k \in 1..Len(finalJSON.walls) : OnWall(finalJSON.doors[i].start, finalJSON.walls[k])
        /\ \E k \in 1..Len(finalJSON.walls) : OnWall(finalJSON.doors[i].end, finalJSON.walls[k])

\* the doors are those snapped against the rectified, deduplicated
\* pixel-space graph, which no later step has changed
SnappedAgainstFinalGraph ==
    /\ [nodes |-> pixelData.nodes, edges |-> edges] = createWallGraph(wallPaths)
    /\ pixelData.doors = findDoors(doorPaths, pixelData.nodes, edges)

\* C21: the steps of a submission run build, rectify, deduplicate, project
\* doors, scale; with at least one non-degenerate wall edge every posted
\* door start and end lies on the segment of some posted wall, whether or
\* not scaling was applied.
C21_PostedDoorsLieOnPostedWalls ==
    (pc = "posted" /\ SomeProperEdge) => (SnappedAgainstFinalGraph /\ DoorsOnWalls)

\* The same for the submissions whose scale factor, if any, is finite: it
\* holds of them, so the order of the steps is as stated and only the
\* division by a zero length takes the posted doors off the posted walls.
PostedDoorsOnWallsForFiniteFactor ==
    (pc = "posted" /\ SomeProperEdge /\ (scaleCall.called => IsFinite(scaleCall.scaleFactor)))
        => (SnappedAgainstFinalGraph /\ DoorsOnWalls)

====
